---- MODULE Spec2Model ----
(***************************************************************************)
(* A model of the securionpay client: the mutex-guarded credential store   *)
(* (Client.apiKey, Client.rt), the request validators, the endpoint        *)
(* resolver, the transport pipeline doAuthThenReqAndSlurpResponse and the  *)
(* five operation methods AddCard, Charge, NewToken, FindTokenByID and     *)
(* ListCredits.                                                            *)
(*                                                                         *)
(* Go strings that the code trims, splits or concatenates are sequences of *)
(* one-character strings; texts the code only compares or passes on        *)
(* (error messages, response bodies, status lines) are TLA+ strings.       *)
(***************************************************************************)
EXTENDS Integers, Sequences, FiniteSets, TLC

(* ------------------------------ bounds --------------------------------- *)

\* Longest identifier (card ID, customer ID, token ID, security code) drawn.
MaxStrLen == 2

\* Largest CreditRequest.Limit drawn (the smallest is -1).
MaxLimit == 4

(* --------------------------- basic values ------------------------------ *)

\* Go's nil (a nil pointer, a nil error, a nil interface).
Nil == [nil |-> TRUE]

\* The characters identifiers are made of: a blank, a letter that is also a
\* hexadecimal digit, and the percent sign that starts a URL escape.
Alphabet == {" ", "a", "%"}

RECURSIVE StrsOfLen(_)
StrsOfLen(n) ==
    IF n = 0 THEN {<<>>}
    ELSE {Append(s, c) : s \in StrsOfLen(n - 1), c \in Alphabet}

\* Every identifier of at most MaxStrLen characters.
Strs == UNION {StrsOfLen(n) : n \in 0..MaxStrLen}

IsSpace(c) == c = " "

RECURSIVE TrimLeft(_)
TrimLeft(s) ==
    IF s # <<>> /\ IsSpace(Head(s)) THEN TrimLeft(Tail(s)) ELSE s

RECURSIVE TrimRight(_)
TrimRight(s) ==
    IF s # <<>> /\ IsSpace(s[Len(s)]) THEN TrimRight(SubSeq(s, 1, Len(s) - 1)) ELSE s

\* strings.TrimSpace: leading and trailing white space removed.
TrimSpace(s) == TrimRight(TrimLeft(s))

(* ------------------------------ errors --------------------------------- *)

\* An error value: the package variable that holds it (or the place that
\* makes it) and its message (written without its quotation marks).
Err(v, m) == [var |-> v, msg |-> m]

errInvalidCustomerID == Err("errInvalidCustomerID", "invalid customerID")
errBlankCard == Err("errBlankCard", "expecting a non-blank card")
errUnsetCardID == Err("errUnsetCardID", "expecting the card ID to have been set")
errBlankTokenID == Err("errBlankTokenID", "expecting a non-blank token ID")
errBlankAddCardRequest == Err("errBlankAddCardRequest", "expecting a non-blank card request")
errBlankCharge == Err("errBlankCharge", "expecting a non-blank charge")
errEitherBlankCardOrCustomerIDMustBeSet ==
    Err("errEitherBlankCardOrCustomerIDMustBeSet", "either customerId or card must be set")
errNilTokenRequest == Err("errNilTokenRequest", "nil token request passed in")
errEmptySecurityCode ==
    Err("errEmptySecurityCode", "expecting a non-empty security code aka cvc")

(* --------------------------- request values ---------------------------- *)

\* *Card: nil or a card, of which the model keeps the identifier.
Cards == {Nil} \cup [ID : Strs]

\* *AddCardRequest.
AddCardRequests == {Nil} \cup [CustomerID : Strs, Card : Cards]

\* Charge.Card is an interface{}: nil, a string (a token or a card
\* identifier), a *Card (which may be a nil pointer inside a non-nil
\* interface), or a value of any other type, of which the model keeps one
\* that encoding/json has no encoding for, a channel.
IfaceNil == [kind |-> "nil"]
IfaceStr(s) == [kind |-> "string", s |-> s]
IfaceCard(c) == [kind |-> "card", card |-> c]
IfaceChan == [kind |-> "chan"]
ChargeCards ==
    {IfaceNil, IfaceChan} \cup {IfaceStr(s) : s \in Strs} \cup {IfaceCard(c) : c \in Cards}

\* *Charge.
Charges == {Nil} \cup [Card : ChargeCards, CustomerID : Strs]

\* *TokenRequest.
TokenRequests == {Nil} \cup [SecurityCode : Strs]

\* The tokenID argument of FindTokenByID.
TokenIDs == [tokenID : Strs]

\* *CreditRequest.
CreditRequests == {Nil} \cup [Limit : (-1)..MaxLimit, StartingAfterId : {<<>>, <<"a">>}]

OpNames == {"AddCard", "Charge", "NewToken", "FindTokenByID", "ListCredits"}

\* The arguments an operation is called with.
Args(op) ==
    CASE op = "AddCard" -> AddCardRequests
      [] op = "Charge" -> Charges
      [] op = "NewToken" -> TokenRequests
      [] op = "FindTokenByID" -> TokenIDs
      [] op = "ListCredits" -> CreditRequests

(* ----------------------------- validators ------------------------------ *)

\* Card.Validate as it would be without the trimming: a faulty variant that
\* the blank-identifier property must tell apart from the code.
Card_Validate_NoTrim(c) ==
    IF c = Nil THEN errBlankCard
    ELSE IF c.ID = <<>> THEN errUnsetCardID
    ELSE Nil

Card_Validate(c) ==
    IF c = Nil THEN errBlankCard
    ELSE IF TrimSpace(c.ID) = <<>> THEN errUnsetCardID
    ELSE Nil

\* The blank-card test as it would be with the empty-string case forgotten:
\* a faulty variant.
Charge_blankCard_NilOnly(card) == card.kind = "nil"

\* The blank-card test as it would be if the card were trimmed first: a
\* faulty variant.
Charge_blankCard_Trimmed(card) ==
    card.kind = "nil" \/ (card.kind = "string" /\ TrimSpace(card.s) = <<>>)

\* creq.Card == nil || creq.Card == "": the interface is nil, or holds the
\* empty string. Nothing is trimmed.
Charge_blankCard(card) ==
    card.kind = "nil" \/ (card.kind = "string" /\ card.s = <<>>)

Charge_Validate(creq) ==
    IF creq = Nil THEN errBlankCharge
    ELSE IF Charge_blankCard(creq.Card) /\ creq.CustomerID = <<>>
         THEN errEitherBlankCardOrCustomerIDMustBeSet
    ELSE Nil

\* TokenRequest.Validate as it would be without the trimming: a faulty
\* variant.
TokenRequest_Validate_NoTrim(treq) ==
    IF treq = Nil THEN errNilTokenRequest
    ELSE IF treq.SecurityCode = <<>> THEN errEmptySecurityCode
    ELSE Nil

TokenRequest_Validate(treq) ==
    IF treq = Nil THEN errNilTokenRequest
    ELSE IF TrimSpace(treq.SecurityCode) = <<>> THEN errEmptySecurityCode
    ELSE Nil

(* ------------------------- endpoint resolver --------------------------- *)

\* A URL string as the code concatenates it: a fixed prefix, the interpolated
\* identifier, a fixed suffix, and the query (nil when there is none).
URL(prefix, param, suffix, query) ==
    [prefix |-> prefix, param |-> param, suffix |-> suffix, query |-> query]

\* The URL of AddCard as it would be with the template cut short: a faulty
\* variant.
addCardEndpointURL_NoCards(customerID) ==
    URL("https://api.securionpay.com/customers/", customerID, "", Nil)

addCardEndpointURL(customerID) ==
    URL("https://api.securionpay.com/customers/", customerID, "/cards", Nil)

chargeEndpointURL == URL("https://api.securionpay.com/charges", <<>>, "", Nil)

tokensEndpointURL == URL("https://api.securionpay.com/tokens", <<>>, "", Nil)

\* The template is executed on the request itself: the customer identifier
\* is interpolated as the caller gave it, untrimmed.
AddCardRequest_generateURL(acr) == addCardEndpointURL(acr.CustomerID)

\* fmt.Sprintf("%s/%s", tokensEndpointURL, tokenID)
FindTokenURL(tokenID) == URL("https://api.securionpay.com/tokens/", tokenID, "", Nil)

defaultCreditLimit == 3

\* The copy as it would be if a limit of 1 were taken for no limit too: a
\* faulty variant.
CreditRequestCopy_DefaultsOne(cr) ==
    LET creq == IF cr # Nil THEN cr ELSE [Limit |-> 0, StartingAfterId |-> <<>>]
    IN  IF creq.Limit <= 1 THEN [creq EXCEPT !.Limit = defaultCreditLimit] ELSE creq

\* The copy of the request ListCredits works on, its limit defaulted.
CreditRequestCopy(cr) ==
    LET creq == IF cr # Nil THEN cr ELSE [Limit |-> 0, StartingAfterId |-> <<>>]
    IN  IF creq.Limit < 1 THEN [creq EXCEPT !.Limit = defaultCreditLimit] ELSE creq

\* otils.ToURLValues(creq) and qv.Encode(): the fields under their JSON
\* names, an empty startingAfterId left out (omitempty).
CreditsURL(creq) ==
    URL("https://api.securionpay.com/credits?", <<>>, "",
        [limit |-> creq.Limit,
         startingAfterId |-> IF creq.StartingAfterId = <<>> THEN Nil
                             ELSE [s |-> creq.StartingAfterId]])

\* The part of a text before its first question mark: url.Parse cuts the
\* query off there before it looks at the path.
RECURSIVE BeforeQuery(_)
BeforeQuery(s) ==
    IF s = <<>> \/ Head(s) = "?" THEN <<>>
    ELSE <<Head(s)>> \o BeforeQuery(Tail(s))

IsHex(c) == c = "a"

\* url.Parse rejects a path in which a percent sign is not followed by two
\* hexadecimal digits.
RECURSIVE ValidEscapes(_)
ValidEscapes(s) ==
    IF s = <<>> THEN TRUE
    ELSE IF Head(s) = "%"
         THEN /\ Len(s) >= 3
              /\ IsHex(s[2])
              /\ IsHex(s[3])
              /\ ValidEscapes(SubSeq(s, 4, Len(s)))
    ELSE ValidEscapes(Tail(s))

\* http.NewRequest: the request, or the URL's parse error.
NewRequest(method, url, body) ==
    IF ValidEscapes(BeforeQuery(url.param))
    THEN [err |-> Nil,
          req |-> [method |-> method, url |-> url, body |-> body, auth |-> Nil]]
    ELSE [err |-> Err("url.Error", "invalid URL escape"), req |-> Nil]

(* ------------------------------ marshaling ----------------------------- *)

\* json.Marshal(card): the JSON object of a card. An empty objectType is
\* written as "card" (ObjectType.MarshalJSON).
MarshalCard(card) ==
    IF card = Nil THEN [doc |-> "null"]
    ELSE [doc |-> "card", id |-> card.ID, objectType |-> "card"]

\* json.Marshal(creq): card is left out when the interface is nil, and
\* customerId when it is empty (omitempty).
MarshalCharge(creq) ==
    IF creq.Card.kind = "chan" THEN Nil ELSE
    [doc |-> "charge",
     card |-> CASE creq.Card.kind = "nil" -> Nil
                [] creq.Card.kind = "string" -> [s |-> creq.Card.s]
                [] creq.Card.kind = "card" -> MarshalCard(creq.Card.card),
     customerId |-> IF creq.CustomerID = <<>> THEN Nil ELSE [s |-> creq.CustomerID]]

\* The error of json.Marshal(creq): none, unless the card is of a type
\* that has no encoding.
MarshalChargeErr(creq) ==
    IF creq.Card.kind = "chan"
    THEN Err("json.UnsupportedTypeError", "json: unsupported type: chan int")
    ELSE Nil

\* json.Marshal(treq)
MarshalTokenRequest(treq) == [doc |-> "tokenRequest", cvc |-> treq.SecurityCode]

(* --------------------- the operations, up to dispatch ------------------ *)

\* What an operation has done when it reaches the transport pipeline or
\* returns before it: the stages it ran, in order, the error that ended it
\* (nil when it goes on), and the request it built.
Prepared(stages, err, req) == [stages |-> stages, err |-> err, req |-> req]

PrepareAddCard(acr) ==
    IF acr = Nil THEN Prepared(<<"validate">>, errBlankAddCardRequest, Nil)
    ELSE IF Card_Validate(acr.Card) # Nil
         THEN Prepared(<<"validate">>, Card_Validate(acr.Card), Nil)
    ELSE IF TrimSpace(acr.CustomerID) = <<>>
         THEN Prepared(<<"validate">>, errUnsetCardID, Nil)
    ELSE LET endpointURL == AddCardRequest_generateURL(acr)
             blob == MarshalCard(acr.Card)
             r == NewRequest("POST", endpointURL, blob)
         IN  Prepared(<<"validate", "resolve", "marshal", "newRequest">>, r.err, r.req)

PrepareCharge(creq) ==
    IF Charge_Validate(creq) # Nil
    THEN Prepared(<<"validate">>, Charge_Validate(creq), Nil)
    ELSE IF MarshalChargeErr(creq) # Nil
         THEN Prepared(<<"validate", "marshal">>, MarshalChargeErr(creq), Nil)
    ELSE LET blob == MarshalCharge(creq)
             r == NewRequest("POST", chargeEndpointURL, blob)
         IN  Prepared(<<"validate", "marshal", "newRequest">>, r.err, r.req)

PrepareNewToken(treq) ==
    IF TokenRequest_Validate(treq) # Nil
    THEN Prepared(<<"validate">>, TokenRequest_Validate(treq), Nil)
    ELSE LET blob == MarshalTokenRequest(treq)
             r == NewRequest("POST", tokensEndpointURL, blob)
         IN  Prepared(<<"validate", "marshal", "newRequest">>, r.err, r.req)

\* FindTokenByID as it would be without the trimming of its argument: a
\* faulty variant.
PrepareFindTokenByID_NoTrim(arg) ==
    LET tokenID == arg.tokenID
    IN  IF tokenID = <<>> THEN Prepared(<<"validate">>, errBlankTokenID, Nil)
        ELSE LET r == NewRequest("GET", FindTokenURL(tokenID), Nil)
             IN  Prepared(<<"validate", "resolve", "newRequest">>, r.err, r.req)

PrepareFindTokenByID(arg) ==
    LET tokenID == TrimSpace(arg.tokenID)
    IN  IF tokenID = <<>> THEN Prepared(<<"validate">>, errBlankTokenID, Nil)
        ELSE LET r == NewRequest("GET", FindTokenURL(tokenID), Nil)
             IN  Prepared(<<"validate", "resolve", "newRequest">>, r.err, r.req)

\* The memory of ListCredits as it would be if creq were the caller's
\* pointer instead of a copy: a faulty variant.
ListCredits_Memory_Aliased(cr) ==
    LET written == IF cr # Nil /\ cr.Limit < 1
                   THEN [cr EXCEPT !.Limit = defaultCreditLimit] ELSE cr
    IN  [cr |-> written, creq |-> CreditRequestCopy(cr)]

\* The two request objects of ListCredits once the limit is defaulted:
\* the caller's, behind cr, and the one behind creq, which new() made and
\* *creq = *cr filled; the assignment to creq.Limit goes to the latter.
ListCredits_Memory(cr) ==
    LET allocated == [cr |-> cr, creq |-> [Limit |-> 0, StartingAfterId |-> <<>>]]
        copied == IF cr # Nil THEN [allocated EXCEPT !.creq = allocated.cr] ELSE allocated
    IN  IF copied.creq.Limit < 1
        THEN [copied EXCEPT !.creq.Limit = defaultCreditLimit]
        ELSE copied

\* The caller's request object once an operation is through with it: no
\* operation assigns through the pointer it was given.
RequestAfter(op, arg) ==
    IF op = "ListCredits" THEN ListCredits_Memory(arg).cr ELSE arg

PrepareListCredits(cr) ==
    LET creq == CreditRequestCopy(cr)
        r == NewRequest("GET", CreditsURL(creq), Nil)
    IN  Prepared(<<"resolve", "newRequest">>, r.err, r.req)

Prepare(op, arg) ==
    CASE op = "AddCard" -> PrepareAddCard(arg)
      [] op = "Charge" -> PrepareCharge(arg)
      [] op = "NewToken" -> PrepareNewToken(arg)
      [] op = "FindTokenByID" -> PrepareFindTokenByID(arg)
      [] op = "ListCredits" -> PrepareListCredits(arg)

(* --------------------------- the credential ---------------------------- *)

\* A Go string value is two words: the pointer to its bytes (modelled by the
\* bytes themselves) and its length. An assignment stores the two words one
\* after the other.
StringHeader(k) == [data |-> k, len |-> Len(k)]

\* The text a string header denotes. A header whose length exceeds its data
\* (a torn value) reads past the end of the bytes: the excess is unknown.
StrOf(h) ==
    IF h.len <= Len(h.data) THEN SubSeq(h.data, 1, h.len)
    ELSE h.data \o [i \in 1..(h.len - Len(h.data)) |-> "?"]

\* The key the client is constructed with: NewClient and NewClientFromEnv
\* accept no empty key.
InitKey == <<"k">>

\* The keys SetAPIKey is called with: any string, one with a colon included.
\* The keys differ in length, so that a header mixed from two of them is
\* none of them.
ColonKey == <<"a", ":", "b">>
PlainKey == <<"k", "2">>
KeyArgs == {ColonKey, PlainKey}

\* Client.rt holds nil or a transport set by SetHTTPRoundTripper.
NilRT == "nil"
Transports == {"rt1"}
DefaultTransport == "http.DefaultTransport"

(* ----------------------------- basic auth ------------------------------ *)

\* SetBasicAuth as it would be if the header were never set: a faulty
\* variant.
SetBasicAuth_NoHeader(req, username, password) == req

\* Request.SetBasicAuth: the Authorization header is "Basic " and the base64
\* text of username, a colon and password. Base64 loses nothing and is left
\* out; the joining with a colon is kept.
SetBasicAuth(req, username, password) ==
    [req EXCEPT !.auth = [scheme |-> "Basic", cred |-> username \o <<":">> \o password]]

\* The index of the first colon of s, 0 when it has none.
RECURSIVE IndexColon(_, _)
IndexColon(s, i) ==
    IF i > Len(s) THEN 0
    ELSE IF s[i] = ":" THEN i
    ELSE IndexColon(s, i + 1)

\* Request.BasicAuth, as a receiving transport reads the header: the text
\* before the first colon is the username, the rest the password.
BasicAuth(req) ==
    IF req.auth = Nil THEN [ok |-> FALSE, username |-> <<>>, password |-> <<>>]
    ELSE LET c == req.auth.cred
             i == IndexColon(c, 1)
         IN  IF i = 0 THEN [ok |-> FALSE, username |-> <<>>, password |-> <<>>]
             ELSE [ok |-> TRUE,
                   username |-> SubSeq(c, 1, i - 1),
                   password |-> SubSeq(c, i + 1, Len(c))]

(* ------------------------ responses and decoding ----------------------- *)

StatusCodes == {199, 200, 299, 300, 400}

\* Response.Status for a status code.
StatusLine(code) ==
    CASE code = 199 -> "199 status"
      [] code = 200 -> "200 OK"
      [] code = 299 -> "299 status"
      [] code = 300 -> "300 Multiple Choices"
      [] code = 400 -> "400 Bad Request"

\* The texts a response body delivers.
BodyTexts == {"", "{}", "{\"id\":\"a\"}", "oops"}

\* Response.Body: nil, or a stream that delivers data and then ends, at its
\* end of file or with a read error.
Bodies == {Nil} \cup [data : BodyTexts, readErr : BOOLEAN]

Responses ==
    {[StatusCode |-> c, Status |-> StatusLine(c), Body |-> b] : c \in StatusCodes, b \in Bodies}

\* What http.Client.Do returns: an error and no response, or a response.
TransportFailure == [err |-> Err("url.Error", "transport failure"), res |-> Nil]
Outcomes == {TransportFailure} \cup {[err |-> Nil, res |-> r] : r \in Responses}

\* The success test as it would be if only 200 counted: a faulty variant.
StatusOK_Only200(code) == code = 200

\* otils.StatusOK
StatusOK(code) == code >= 200 /\ code <= 299

\* ioutil.ReadAll: the bytes read, and the error that ended the reading if
\* it was not the end of the stream.
ReadAll(body) ==
    [data |-> body.data,
     err |-> IF body.readErr THEN Err("io", "unexpected EOF") ELSE Nil]

\* What doAuthThenReqAndSlurpResponse does with what Do returned: the bytes
\* and error it returns (or that it panics), whether it read the body to its
\* end, and how many times it closed it.
Slurped(val, err, panics, drained, closes) ==
    [val |-> val, err |-> err, panics |-> panics, drained |-> drained, closes |-> closes]

\* The error message as it would be if the body were never looked at: a
\* faulty variant.
RemoteErrMsg_StatusOnly(res) == res.Status

\* The message of the error made for a response that is not a success: the
\* status line, replaced by what was read of the body when that is not
\* empty (the read's own error is dropped).
RemoteErrMsg(res) ==
    LET slurp == IF res.Body # Nil THEN ReadAll(res.Body).data ELSE ""
    IN  IF slurp # "" THEN slurp ELSE res.Status

\* The pipeline as it would be if a response that is not a success were
\* turned into an error from its status line alone, its body neither read
\* nor closed: a faulty variant.
SlurpResponse_BodyLeftOnError(out) ==
    IF out.err # Nil THEN Slurped(Nil, out.err, FALSE, FALSE, 0)
    ELSE LET res == out.res
             closes == IF res.Body # Nil THEN 1 ELSE 0
         IN  IF ~StatusOK(res.StatusCode)
             THEN Slurped(Nil, Err("errors.New", RemoteErrMsg_StatusOnly(res)), FALSE,
                          FALSE, 0)
             ELSE IF res.Body = Nil
                  THEN Slurped(Nil, Nil, TRUE, FALSE, 0)
             ELSE Slurped([bytes |-> ReadAll(res.Body).data], ReadAll(res.Body).err,
                          FALSE, TRUE, closes)

SlurpResponse(out) ==
    IF out.err # Nil THEN Slurped(Nil, out.err, FALSE, FALSE, 0)
    ELSE LET res == out.res
             closes == IF res.Body # Nil THEN 1 ELSE 0
         IN  IF ~StatusOK(res.StatusCode)
             THEN Slurped(Nil, Err("errors.New", RemoteErrMsg(res)), FALSE,
                          res.Body # Nil, closes)
             ELSE IF res.Body = Nil
                  \* ioutil.ReadAll(nil) dereferences the nil reader.
                  THEN Slurped(Nil, Nil, TRUE, FALSE, 0)
             ELSE Slurped([bytes |-> ReadAll(res.Body).data], ReadAll(res.Body).err,
                          FALSE, TRUE, closes)

\* The text a sequence of characters makes.
RECURSIVE Text(_)
Text(s) == IF s = <<>> THEN "" ELSE Head(s) \o Text(Tail(s))

\* Token, with its identifier and its objectType.
Tokens == [ID : {<<>>, <<"a">>, <<"%">>}, ObjectType : Strs \cup {<<"c", "a", "r", "d">>}]

\* The JSON text of a token whose fields are written as id and objectType.
TokenJSON(id, objectType) ==
    "{\"id\":\"" \o Text(id) \o "\",\"objectType\":\"" \o Text(objectType) \o "\"}"

\* The JSON texts json.Unmarshal reads a Token from: ObjectType has no
\* decoder of its own, so each field is read as the string written.
TokenJSONTexts == {TokenJSON(tok.ID, tok.ObjectType) : tok \in Tokens}

\* json.Unmarshal into a Token with the identifier dropped: a faulty
\* variant.
Token_Unmarshal_NoID(text) ==
    [ID |-> <<>>,
     ObjectType |-> (CHOOSE tok \in Tokens : TokenJSON(tok.ID, tok.ObjectType) = text).ObjectType]

\* json.Unmarshal(blob, tok) for a fresh Token: the token whose fields are
\* the strings of the text.
Token_Unmarshal(text) ==
    CHOOSE tok \in Tokens : TokenJSON(tok.ID, tok.ObjectType) = text

\* Whether json.Unmarshal accepts a text.
JSONValid(text) == text \in {"{}", "{\"id\":\"a\"}"} \cup TokenJSONTexts

\* The "id" member of a JSON object, empty when it has none.
JSONId(text) ==
    IF text \in TokenJSONTexts THEN Token_Unmarshal(text).ID
    ELSE IF text = "{\"id\":\"a\"}" THEN <<"a">> ELSE <<>>

ResultType(op) ==
    CASE op = "AddCard" -> "Card"
      [] op = "Charge" -> "ChargeResponse"
      [] op = "NewToken" -> "Token"
      [] op = "FindTokenByID" -> "Token"
      [] op = "ListCredits" -> "Credits"

\* What an operation returns: the typed result and the error.
Returned(val, err) == [val |-> val, err |-> err]

\* json.Unmarshal(blob, new(T)) and the return that follows it.
Unmarshal(op, blob) ==
    IF ~JSONValid(blob) THEN Returned(Nil, Err("json", "malformed JSON"))
    ELSE IF ResultType(op) = "Token" /\ blob \in TokenJSONTexts
         THEN Returned([type |-> "Token", ID |-> Token_Unmarshal(blob).ID,
                        ObjectType |-> Token_Unmarshal(blob).ObjectType], Nil)
    ELSE Returned([type |-> ResultType(op), ID |-> JSONId(blob)], Nil)

(* ------------------------------- state --------------------------------- *)

\* The goroutines that call operations, and those that call the setters.
OpThreads == {"o1", "o2"}
SetterThreads == {"s1", "s2"}
Threads == OpThreads \cup SetterThreads

None == "none"

VARIABLES
    apiKey,     \* Client.apiKey, a string header
    rt,         \* Client.rt
    rwW,        \* Client.RWMutex: the writer that has announced itself, or None
    rwWriter,   \* Client.RWMutex: the writer holding the lock, or None
    readers,    \* Client.RWMutex: the goroutines holding the read lock
    pc,         \* where each goroutine is
    call,       \* the call a goroutine is in: its method and argument
    stages,     \* the stages the call has run, in order
    req,        \* the *http.Request the call has built
    key,        \* the string header _apiKey returned to the call
    tr,         \* the transport httpRoundTripper returned to the call
    sent,       \* the request as the transport received it
    ncalls,     \* how many times the call has invoked the transport
    resp,       \* what Do returned to the call
    slurp,      \* what the pipeline made of it
    ret,        \* what the call returned
    caller,     \* the request object of the caller, as the call has left it
    env,        \* the value of SECURIONPAY_API_KEY in the environment
    made,       \* what the last call of a constructor returned
    coded,      \* what the last call of an encoder or decoder returned
    since       \* per operation, the keys and transports stored from its
                \* invocation to its dispatch (history)

lock == <<rwW, rwWriter, readers>>
fields == <<apiKey, rt>>
locals == <<call, stages, req, key, tr, sent, ncalls, resp, slurp, ret, caller>>
construction == <<env, made>>
vars == <<apiKey, rt, rwW, rwWriter, readers, pc, call, stages, req, key, tr,
          sent, ncalls, resp, slurp, ret, caller, env, made, coded, since>>

Init ==
    /\ apiKey = StringHeader(InitKey)
    /\ rt = NilRT
    /\ rwW = None
    /\ rwWriter = None
    /\ readers = {}
    /\ pc = [t \in Threads |-> "idle"]
    /\ call = [t \in Threads |-> Nil]
    /\ stages = [t \in Threads |-> <<>>]
    /\ req = [t \in Threads |-> Nil]
    /\ key = [t \in Threads |-> Nil]
    /\ tr = [t \in Threads |-> None]
    /\ sent = [t \in Threads |-> Nil]
    /\ ncalls = [t \in Threads |-> 0]
    /\ resp = [t \in Threads |-> Nil]
    /\ slurp = [t \in Threads |-> Nil]
    /\ ret = [t \in Threads |-> Nil]
    /\ caller = [t \in Threads |-> Nil]
    /\ env = <<>>
    /\ made = Nil
    /\ coded = Nil
    /\ since = [t \in OpThreads |-> Nil]

(* ---------------------------- sync.RWMutex ----------------------------- *)

\* Lock, first half: the writer takes the writers' mutex and announces
\* itself, which makes every later RLock wait.
RWLockAnnounce(t) ==
    /\ rwW = None
    /\ rwW' = t
    /\ UNCHANGED <<rwWriter, readers>>

\* Lock as it would be if the writer did not wait for the readers to leave:
\* a faulty variant.
RWLockAcquire_NoWait(t) ==
    /\ rwW = t
    /\ rwWriter' = t
    /\ UNCHANGED <<rwW, readers>>

\* Lock, second half: the announced writer waits for the readers to leave.
RWLockAcquire(t) ==
    /\ rwW = t
    /\ readers = {}
    /\ rwWriter' = t
    /\ UNCHANGED <<rwW, readers>>

RWUnlock(t) ==
    /\ rwW' = None
    /\ rwWriter' = None
    /\ UNCHANGED readers

\* RLock waits while a writer holds the lock or has announced itself.
RWRLock(t) ==
    /\ rwW = None
    /\ readers' = readers \cup {t}
    /\ UNCHANGED <<rwW, rwWriter>>

RWRUnlock(t) ==
    /\ readers' = readers \ {t}
    /\ UNCHANGED <<rwW, rwWriter>>

(* ------------------------------ setters -------------------------------- *)

\* A goroutine calls SetAPIKey(k).
SetAPIKey_Call(t, k) ==
    /\ pc[t] = "idle"
    /\ pc' = [pc EXCEPT ![t] = "sk_lock"]
    /\ call' = [call EXCEPT ![t] = [op |-> "SetAPIKey", arg |-> [key |-> k]]]
    /\ UNCHANGED <<fields, lock, stages, req, key, tr, sent, ncalls, resp, slurp, ret, caller>>

\* c.Lock()
SetAPIKey_Lock(t) ==
    \/ /\ pc[t] = "sk_lock"
       /\ RWLockAnnounce(t)
       /\ pc' = [pc EXCEPT ![t] = "sk_wait"]
       /\ UNCHANGED <<fields, locals>>
    \/ /\ pc[t] = "sk_wait"
       /\ RWLockAcquire(t)
       /\ pc' = [pc EXCEPT ![t] = "sk_data"]
       /\ UNCHANGED <<fields, locals>>

\* c.apiKey = key, the first word.
SetAPIKey_StoreData(t) ==
    /\ pc[t] = "sk_data"
    /\ apiKey' = [apiKey EXCEPT !.data = call[t].arg.key]
    /\ pc' = [pc EXCEPT ![t] = "sk_len"]
    /\ UNCHANGED <<rt, lock, locals>>

\* The end of SetAPIKey as it would be without its c.Unlock(): a faulty
\* variant that returns with the lock held.
SetAPIKey_StoreLenUnlock_NoUnlock(t) ==
    /\ pc[t] = "sk_len"
    /\ apiKey' = [apiKey EXCEPT !.len = Len(call[t].arg.key)]
    /\ pc' = [pc EXCEPT ![t] = "idle"]
    /\ call' = [call EXCEPT ![t] = Nil]
    /\ UNCHANGED <<rt, lock, stages, req, key, tr, sent, ncalls, resp, slurp, ret, caller>>

\* c.apiKey = key, the second word; c.Unlock(); return.
SetAPIKey_StoreLenUnlock(t) ==
    /\ pc[t] = "sk_len"
    /\ apiKey' = [apiKey EXCEPT !.len = Len(call[t].arg.key)]
    /\ RWUnlock(t)
    /\ pc' = [pc EXCEPT ![t] = "idle"]
    /\ call' = [call EXCEPT ![t] = Nil]
    /\ UNCHANGED <<rt, stages, req, key, tr, sent, ncalls, resp, slurp, ret, caller>>

\* A goroutine calls SetHTTPRoundTripper(r).
SetHTTPRoundTripper_Call(t, r) ==
    /\ pc[t] = "idle"
    /\ pc' = [pc EXCEPT ![t] = "sr_lock"]
    /\ call' = [call EXCEPT ![t] = [op |-> "SetHTTPRoundTripper", arg |-> [rt |-> r]]]
    /\ UNCHANGED <<fields, lock, stages, req, key, tr, sent, ncalls, resp, slurp, ret, caller>>

\* c.Lock()
SetHTTPRoundTripper_Lock(t) ==
    \/ /\ pc[t] = "sr_lock"
       /\ RWLockAnnounce(t)
       /\ pc' = [pc EXCEPT ![t] = "sr_wait"]
       /\ UNCHANGED <<fields, locals>>
    \/ /\ pc[t] = "sr_wait"
       /\ RWLockAcquire(t)
       /\ pc' = [pc EXCEPT ![t] = "sr_store"]
       /\ UNCHANGED <<fields, locals>>

\* c.rt = rt; c.Unlock(); return.
SetHTTPRoundTripper_StoreUnlock(t) ==
    /\ pc[t] = "sr_store"
    /\ rt' = call[t].arg.rt
    /\ RWUnlock(t)
    /\ pc' = [pc EXCEPT ![t] = "idle"]
    /\ call' = [call EXCEPT ![t] = Nil]
    /\ UNCHANGED <<apiKey, stages, req, key, tr, sent, ncalls, resp, slurp, ret, caller>>

(* ----------------------------- operations ------------------------------ *)

\* A goroutine calls an operation, which runs up to its call of the
\* transport pipeline or returns an error before it. Nothing here reads or
\* writes the client.
Op_Call(t, op, arg) ==
    /\ pc[t] = "idle"
    /\ call' = [call EXCEPT ![t] = [op |-> op, arg |-> arg]]
    /\ caller' = [caller EXCEPT ![t] = RequestAfter(op, arg)]
    /\ LET p == Prepare(op, arg)
       IN  IF p.err # Nil
           THEN /\ pc' = [pc EXCEPT ![t] = "returned"]
                /\ stages' = [stages EXCEPT ![t] = p.stages]
                /\ ret' = [ret EXCEPT ![t] = Returned(Nil, p.err)]
                /\ req' = req
           ELSE /\ pc' = [pc EXCEPT ![t] = "k_rlock"]
                /\ stages' = [stages EXCEPT ![t] = Append(p.stages, "pipeline")]
                /\ req' = [req EXCEPT ![t] = p.req]
                /\ ret' = ret
    /\ UNCHANGED <<fields, lock, key, tr, sent, ncalls, resp, slurp>>

\* _apiKey as it would be without its c.RLock(): a faulty variant that reads
\* the key whatever a writer is doing.
apiKey_RLock_Missing(t) ==
    /\ pc[t] = "k_rlock"
    /\ pc' = [pc EXCEPT ![t] = "k_read"]
    /\ UNCHANGED <<fields, lock, locals>>

\* _apiKey: c.RLock()
apiKey_RLock(t) ==
    /\ pc[t] = "k_rlock"
    /\ RWRLock(t)
    /\ pc' = [pc EXCEPT ![t] = "k_read"]
    /\ UNCHANGED <<fields, locals>>

\* _apiKey as it would be if it returned the key the client was made with:
\* a faulty variant that misses what SetAPIKey stored.
apiKey_ReadRUnlock_KeyAsMade(t) ==
    /\ pc[t] = "k_read"
    /\ key' = [key EXCEPT ![t] = StringHeader(InitKey)]
    /\ RWRUnlock(t)
    /\ req' = [req EXCEPT ![t] = SetBasicAuth(req[t], InitKey, <<>>)]
    /\ pc' = [pc EXCEPT ![t] = "r_rlock"]
    /\ UNCHANGED <<fields, call, caller, stages, tr, sent, ncalls, resp, slurp, ret>>

\* _apiKey: key := c.apiKey; c.RUnlock(); return key. Then
\* req.SetBasicAuth(key, "").
apiKey_ReadRUnlock(t) ==
    /\ pc[t] = "k_read"
    /\ key' = [key EXCEPT ![t] = apiKey]
    /\ RWRUnlock(t)
    /\ req' = [req EXCEPT ![t] = SetBasicAuth(req[t], StrOf(apiKey), <<>>)]
    /\ pc' = [pc EXCEPT ![t] = "r_rlock"]
    /\ UNCHANGED <<fields, call, caller, stages, tr, sent, ncalls, resp, slurp, ret>>

\* httpRoundTripper: c.RLock()
httpRoundTripper_RLock(t) ==
    /\ pc[t] = "r_rlock"
    /\ RWRLock(t)
    /\ pc' = [pc EXCEPT ![t] = "r_read"]
    /\ UNCHANGED <<fields, locals>>

\* httpRoundTripper as it would be without its nil check: a faulty variant.
TransportFor_NoDefault(stored) == stored

\* The transport a request goes through: the stored one, or the default
\* transport when none is stored.
TransportFor(stored) == IF stored = NilRT THEN DefaultTransport ELSE stored

\* httpRoundTripper as it would be if it kept the default transport in the
\* client once it had fallen back on it: a faulty variant.
httpRoundTripper_ReadRUnlock_StoresDefault(t) ==
    /\ pc[t] = "r_read"
    /\ tr' = [tr EXCEPT ![t] = TransportFor(rt)]
    /\ rt' = TransportFor(rt)
    /\ RWRUnlock(t)
    /\ sent' = [sent EXCEPT ![t] = req[t]]
    /\ ncalls' = [ncalls EXCEPT ![t] = @ + 1]
    /\ pc' = [pc EXCEPT ![t] = "inflight"]
    /\ UNCHANGED <<apiKey, call, caller, stages, req, key, resp, slurp, ret>>

\* httpRoundTripper as it would be if its RUnlock were put off until the
\* pipeline is through with the response: a faulty variant that holds the
\* shared lock across the round trip.
httpRoundTripper_ReadRUnlock_HoldsLock(t) ==
    /\ pc[t] = "r_read"
    /\ tr' = [tr EXCEPT ![t] = TransportFor(rt)]
    /\ sent' = [sent EXCEPT ![t] = req[t]]
    /\ ncalls' = [ncalls EXCEPT ![t] = @ + 1]
    /\ pc' = [pc EXCEPT ![t] = "inflight"]
    /\ UNCHANGED <<fields, lock, call, caller, stages, req, key, resp, slurp, ret>>

\* The dispatch as it would be if the request were sent a second time: a
\* faulty variant.
httpRoundTripper_ReadRUnlock_Twice(t) ==
    /\ pc[t] = "r_read"
    /\ tr' = [tr EXCEPT ![t] = TransportFor(rt)]
    /\ RWRUnlock(t)
    /\ sent' = [sent EXCEPT ![t] = req[t]]
    /\ ncalls' = [ncalls EXCEPT ![t] = @ + 2]
    /\ pc' = [pc EXCEPT ![t] = "inflight"]
    /\ UNCHANGED <<fields, call, caller, stages, req, key, resp, slurp, ret>>

\* httpRoundTripper: rt := c.rt; c.RUnlock(); the nil check; return. Then
\* httpClient().Do(req) hands the request to the transport.
httpRoundTripper_ReadRUnlock(t) ==
    /\ pc[t] = "r_read"
    /\ tr' = [tr EXCEPT ![t] = TransportFor(rt)]
    /\ RWRUnlock(t)
    /\ sent' = [sent EXCEPT ![t] = req[t]]
    /\ ncalls' = [ncalls EXCEPT ![t] = @ + 1]
    /\ pc' = [pc EXCEPT ![t] = "inflight"]
    /\ UNCHANGED <<fields, call, caller, stages, req, key, resp, slurp, ret>>

\* The end of an operation as it would be if a result were returned beside
\* the pipeline's error: a faulty variant.
Finish_Partial(op, p) ==
    IF p.err # Nil THEN Returned([type |-> ResultType(op), ID |-> <<>>], p.err)
    ELSE Unmarshal(op, p.val.bytes)

\* What an operation does with what the pipeline returned: it returns the
\* pipeline's error, or decodes the bytes.
Finish(op, p) ==
    IF p.err # Nil THEN Returned(Nil, p.err) ELSE Unmarshal(op, p.val.bytes)

\* Do returns out: the rest of doAuthThenReqAndSlurpResponse, and of the
\* operation that called it.
Do_Return(t, out) ==
    /\ pc[t] = "inflight"
    /\ resp' = [resp EXCEPT ![t] = out]
    /\ LET p == SlurpResponse(out)
       IN  /\ slurp' = [slurp EXCEPT ![t] = p]
           /\ IF p.panics
              THEN /\ pc' = [pc EXCEPT ![t] = "panicked"]
                   /\ UNCHANGED <<stages, ret>>
              ELSE /\ pc' = [pc EXCEPT ![t] = "returned"]
                   /\ stages' = [stages EXCEPT ![t] =
                                    IF p.err # Nil THEN @ ELSE Append(@, "unmarshal")]
                   /\ ret' = [ret EXCEPT ![t] = Finish(call[t].op, p)]
    /\ UNCHANGED <<fields, lock, call, caller, req, key, tr, sent, ncalls>>

\* The caller takes the result (or recovers from the panic) and is free to
\* make its next call.
Op_Return(t) ==
    /\ pc[t] \in {"returned", "panicked"}
    /\ pc' = [pc EXCEPT ![t] = "idle"]
    /\ call' = [call EXCEPT ![t] = Nil]
    /\ stages' = [stages EXCEPT ![t] = <<>>]
    /\ req' = [req EXCEPT ![t] = Nil]
    /\ key' = [key EXCEPT ![t] = Nil]
    /\ tr' = [tr EXCEPT ![t] = None]
    /\ sent' = [sent EXCEPT ![t] = Nil]
    /\ ncalls' = [ncalls EXCEPT ![t] = 0]
    /\ resp' = [resp EXCEPT ![t] = Nil]
    /\ slurp' = [slurp EXCEPT ![t] = Nil]
    /\ ret' = [ret EXCEPT ![t] = Nil]
    /\ caller' = [caller EXCEPT ![t] = Nil]
    /\ UNCHANGED <<fields, lock>>

(* ----------------------------- construction ---------------------------- *)

\* Most keys drawn for one call of NewClient.
MaxKeysToTry == 3

\* The keys drawn as arguments of NewClient: the empty one, a blank one, and
\* two that are not blank, one of them with a blank in front.
CandidateKeys == {<<>>, <<" ">>, <<"a">>, <<" ", "b">>}

\* apiKeysToTry ...string
KeyLists == UNION {[1..n -> CandidateKeys] : n \in 0..MaxKeysToTry}

\* The values drawn for SECURIONPAY_API_KEY: unset or empty, blank, a key.
EnvValues == {<<>>, <<" ">>, <<"e">>}

errEmptyAPIKey ==
    Err("errEmptyAPIKey",
        "missing API key, please set \"SECURIONPAY_API_KEY\" in your environment")

\* What a constructor returns, and how many times it read the environment.
Made(client, err, getenvs) == [client |-> client, err |-> err, getenvs |-> getenvs]

\* &Client{apiKey: key}
NewClientValue(k) == [apiKey |-> k, rt |-> NilRT]

\* NewClientFromEnv as it would be without the test of the key read: a
\* faulty variant.
NewClientFromEnv_NoCheck(envValue) == Made(NewClientValue(envValue), Nil, 1)

NewClientFromEnv(envValue) ==
    LET retrAPIKey == envValue
    IN  IF retrAPIKey = <<>> THEN Made(Nil, errEmptyAPIKey, 1)
        ELSE Made(NewClientValue(retrAPIKey), Nil, 1)

\* otils.FirstNonEmptyString as it would be if it skipped empty strings
\* only: a faulty variant.
RECURSIVE FirstNonEmptyString_EmptyOnly(_)
FirstNonEmptyString_EmptyOnly(args) ==
    IF args = <<>> THEN <<>>
    ELSE IF Head(args) # <<>> THEN Head(args)
    ELSE FirstNonEmptyString_EmptyOnly(Tail(args))

\* otils.FirstNonEmptyString: the first argument that is not empty and not
\* made of blanks only, as it was given; the empty string when there is
\* none.
RECURSIVE FirstNonEmptyString(_)
FirstNonEmptyString(args) ==
    IF args = <<>> THEN <<>>
    ELSE IF TrimSpace(Head(args)) # <<>> THEN Head(args)
    ELSE FirstNonEmptyString(Tail(args))

NewClient(apiKeysToTry, envValue) ==
    LET nonBlankAPIKey == FirstNonEmptyString(apiKeysToTry)
    IN  IF nonBlankAPIKey # <<>> THEN Made(NewClientValue(nonBlankAPIKey), Nil, 0)
        ELSE NewClientFromEnv(envValue)

\* The environment variable is set, or unset, before a constructor runs.
Setenv(v) ==
    /\ env' = v
    /\ made' = Nil
    /\ UNCHANGED <<fields, lock, pc, locals, coded, since>>

NewClientFromEnv_Call ==
    /\ made' = [fn |-> "NewClientFromEnv", args |-> <<>>, env |-> env,
                out |-> NewClientFromEnv(env)]
    /\ UNCHANGED <<fields, lock, pc, locals, env, coded, since>>

NewClient_Call(apiKeysToTry) ==
    /\ made' = [fn |-> "NewClient", args |-> apiKeysToTry, env |-> env,
                out |-> NewClient(apiKeysToTry, env)]
    /\ UNCHANGED <<fields, lock, pc, locals, env, coded, since>>

(* --------------------------- JSON encodings ---------------------------- *)

Quote == "\""

\* The JSON literal null.
NullText == <<"n", "u", "l", "l">>

CardText == <<"c", "a", "r", "d">>

\* strconv.Quote, for texts without quotes, backslashes and control
\* characters: the text between double quotes.
strconv_Quote(s) == <<Quote>> \o s \o <<Quote>>

\* What strconv.Unquote returns: the text, or a syntax error.
Unquoted(s, err) == [s |-> s, err |-> err]

ErrSyntax == Err("strconv.ErrSyntax", "invalid syntax")

\* strconv.Unquote: the text between a pair of double quotes that has no
\* quote inside; anything else is a syntax error.
strconv_Unquote(b) ==
    IF Len(b) < 2 \/ b[1] # Quote \/ b[Len(b)] # Quote THEN Unquoted(<<>>, ErrSyntax)
    ELSE LET inner == SubSeq(b, 2, Len(b) - 1)
         IN  IF \E i \in 1..Len(inner) : inner[i] = Quote
             THEN Unquoted(<<>>, ErrSyntax)
             ELSE Unquoted(inner, Nil)

\* The JSON texts handed to CustomerID.UnmarshalJSON: null, the quoted
\* strings, and texts that are neither.
JSONTexts ==
    {NullText} \cup {strconv_Quote(s) : s \in Strs} \cup {<<>>, <<"a">>, <<Quote>>}

\* What the decoding of a customer identifier leaves: the identifier and
\* the error returned.
Decoded(cid, err) == [cid |-> cid, err |-> err]

\* CustomerID.UnmarshalJSON on the identifier cid: str is set to the empty
\* text for null and never used; strconv.Unquote is given the bytes as they
\* came.
CustomerID_UnmarshalJSON(cid, b) ==
    LET str == IF b = NullText THEN <<>> ELSE b
        r == strconv_Unquote(b)
    IN  IF r.err # Nil THEN Decoded(cid, r.err)
        ELSE Decoded(r.s, Nil)

\* *ObjectType: nil, or a pointer to a text.
ObjectTypes == {Nil} \cup {[p |-> s] : s \in Strs}

\* What a MarshalJSON returns.
Marshaled(bytes, err) == [bytes |-> bytes, err |-> err]

\* ObjectType.MarshalJSON as it would be without the trimming: a faulty
\* variant.
ObjectType_MarshalJSON_NoTrim(ot) ==
    Marshaled(strconv_Quote(IF ot # Nil /\ ot.p # <<>> THEN ot.p ELSE CardText), Nil)

ObjectType_MarshalJSON(ot) ==
    LET stripped == IF ot # Nil THEN TrimSpace(ot.p) ELSE <<>>
        str == IF stripped # <<>> THEN stripped ELSE CardText
    IN  Marshaled(strconv_Quote(str), Nil)

\* The decimal digits.
Digits == <<"0", "1", "2", "3", "4", "5", "6", "7", "8", "9">>

DigitValue(c) == (CHOOSE i \in 1..10 : Digits[i] = c) - 1

\* strconv.Itoa as it would be if it dropped the sign: a faulty variant.
RECURSIVE Itoa_NoSign(_)
Itoa_NoSign(n) ==
    IF n < 0 THEN Itoa_NoSign(0 - n)
    ELSE IF n < 10 THEN <<Digits[n + 1]>>
    ELSE Itoa_NoSign(n \div 10) \o <<Digits[(n % 10) + 1]>>

\* The decimal text of an integer, as encoding/json writes it.
RECURSIVE Itoa(_)
Itoa(n) ==
    IF n < 0 THEN <<"-">> \o Itoa(0 - n)
    ELSE IF n < 10 THEN <<Digits[n + 1]>>
    ELSE Itoa(n \div 10) \o <<Digits[(n % 10) + 1]>>

\* The integer of a decimal text, as encoding/json reads it.
RECURSIVE Atoi(_)
Atoi(s) ==
    IF Head(s) = "-" THEN 0 - Atoi(Tail(s))
    ELSE IF Len(s) = 1 THEN DigitValue(s[1])
    ELSE 10 * Atoi(SubSeq(s, 1, Len(s) - 1)) + DigitValue(s[Len(s)])

\* The expiry months and years drawn.
ExpiryMonths == {-1, 0, 9, 12}
ExpiryYears == {0, 2017}

\* Card, with the fields that have an encoding of their own: the strings
\* ID and ObjectType and the integers written as JSON strings.
FullCards ==
    [ID : {<<>>, <<"a">>}, ObjectType : Strs,
     ExpiryMonth : ExpiryMonths, ExpiryYear : ExpiryYears]

\* json.Marshal of a Card: the text of each field under its JSON name. The
\* field objectType goes through ObjectType.MarshalJSON, whose receiver is
\* a pointer, only when the card is addressable (json.Marshal was given a
\* *Card); the field of a Card passed by value is written as the plain
\* string. The integers tagged ",string" are written between quotes.
Card_Marshal(card, addressable) ==
    [id |-> strconv_Quote(card.ID),
     objectType |-> IF addressable
                    THEN ObjectType_MarshalJSON([p |-> card.ObjectType]).bytes
                    ELSE strconv_Quote(card.ObjectType),
     expMonth |-> strconv_Quote(Itoa(card.ExpiryMonth)),
     expYear |-> strconv_Quote(Itoa(card.ExpiryYear))]

\* json.Unmarshal into a fresh Card: ObjectType has no decoder of its own
\* and is read as a plain string.
Card_Unmarshal(doc) ==
    [ID |-> strconv_Unquote(doc.id).s,
     ObjectType |-> strconv_Unquote(doc.objectType).s,
     ExpiryMonth |-> Atoi(strconv_Unquote(doc.expMonth).s),
     ExpiryYear |-> Atoi(strconv_Unquote(doc.expYear).s)]

\* A card is marshaled and the bytes are unmarshaled into a fresh Card.
Card_RoundTrip_Call(card, addressable) ==
    /\ coded' = [fn |-> "Card", in |-> [card |-> card, addressable |-> addressable],
                 out |-> [doc |-> Card_Marshal(card, addressable),
                          card |-> Card_Unmarshal(Card_Marshal(card, addressable))]]
    /\ UNCHANGED <<fields, lock, pc, locals, construction, since>>

\* json.Marshal of a *Token: objectType goes through
\* ObjectType.MarshalJSON.
Token_Marshal(tok) ==
    LET bytes == ObjectType_MarshalJSON([p |-> tok.ObjectType]).bytes
    IN  TokenJSON(tok.ID, SubSeq(bytes, 2, Len(bytes) - 1))

\* What the stub transport of the tests answers a token lookup with: the
\* JSON of one of its tokens, or its refusal of an identifier it does not
\* know, which has no body.
invalidTokenID == [StatusCode |-> 400, Status |-> "invalid tokenID", Body |-> Nil]

TokenOutcomes ==
    {[err |-> Nil,
      res |-> [StatusCode |-> 200, Status |-> "200 OK",
               Body |-> [data |-> Token_Marshal(tok), readErr |-> FALSE]]] : tok \in Tokens}
    \cup {[err |-> Nil, res |-> invalidTokenID]}

CustomerID_UnmarshalJSON_Call(b) ==
    /\ coded' = [fn |-> "CustomerID.UnmarshalJSON", in |-> [b |-> b],
                 out |-> CustomerID_UnmarshalJSON(<<>>, b)]
    /\ UNCHANGED <<fields, lock, pc, locals, construction, since>>

ObjectType_MarshalJSON_Call(ot) ==
    /\ coded' = [fn |-> "ObjectType.MarshalJSON", in |-> ot,
                 out |-> ObjectType_MarshalJSON(ot)]
    /\ UNCHANGED <<fields, lock, pc, locals, construction, since>>

(* --------------------------- specifications ---------------------------- *)

\* One step of a goroutine that makes the calls of calls (each an operation
\* and its argument), with the transport answering from outcomes.
OpStep(t, calls, outcomes) ==
    \/ pc[t] = "idle" /\ \E c \in calls : Op_Call(t, c.op, c.arg)
    \/ apiKey_RLock(t)
    \/ apiKey_ReadRUnlock(t)
    \/ httpRoundTripper_RLock(t)
    \/ httpRoundTripper_ReadRUnlock(t)
    \/ pc[t] = "inflight" /\ \E out \in outcomes : Do_Return(t, out)
    \/ Op_Return(t)

\* One step of a goroutine that calls the setters, with keys from keys and
\* transports from rts.
SetterStep(t, keys, rts) ==
    \/ \E k \in keys : SetAPIKey_Call(t, k)
    \/ SetAPIKey_Lock(t)
    \/ SetAPIKey_StoreData(t)
    \/ SetAPIKey_StoreLenUnlock(t)
    \/ \E r \in rts : SetHTTPRoundTripper_Call(t, r)
    \/ SetHTTPRoundTripper_Lock(t)
    \/ SetHTTPRoundTripper_StoreUnlock(t)

\* The arguments drawn when goroutines run concurrently: for each operation
\* one that passes validation, and for FindTokenByID one that fails it.
ConcArgs(op) ==
    CASE op = "AddCard" -> {[CustomerID |-> <<"a">>, Card |-> [ID |-> <<"a">>]]}
      [] op = "Charge" -> {[Card |-> IfaceStr(<<"a">>), CustomerID |-> <<>>]}
      [] op = "NewToken" -> {[SecurityCode |-> <<"a">>]}
      [] op = "FindTokenByID" -> {[tokenID |-> <<" ">>], [tokenID |-> <<"a">>]}
      [] op = "ListCredits" -> {Nil}

\* The calls made when goroutines run concurrently.
ConcCalls == UNION {{[op |-> op, arg |-> arg] : arg \in ConcArgs(op)} : op \in OpNames}

\* The transport's answers drawn when goroutines run concurrently: a
\* failure, a success and a refusal.
ConcOutcomes ==
    { TransportFailure,
      [err |-> Nil, res |-> [StatusCode |-> 200, Status |-> StatusLine(200),
                             Body |-> [data |-> "{}", readErr |-> FALSE]]],
      [err |-> Nil, res |-> [StatusCode |-> 400, Status |-> StatusLine(400),
                             Body |-> Nil]] }

\* One step of a goroutine that calls SetAPIKey only.
KeySetterStep(t, keys) ==
    \/ \E k \in keys : SetAPIKey_Call(t, k)
    \/ SetAPIKey_Lock(t)
    \/ SetAPIKey_StoreData(t)
    \/ SetAPIKey_StoreLenUnlock(t)

\* Operations and setters called concurrently from independent goroutines:
\* o1 calls every operation while o2 looks tokens up; s1 calls both setters
\* while s2 replaces the key by another one.
Next ==
    /\ \/ OpStep("o1", ConcCalls, ConcOutcomes)
       \/ OpStep("o2", {c \in ConcCalls : c.op = "FindTokenByID"}, {TransportFailure})
       \/ SetterStep("s1", {ColonKey}, {NilRT} \cup Transports)
       \/ KeySetterStep("s2", {PlainKey})
    /\ UNCHANGED <<construction, coded, since>>

Spec == Init /\ [][Next]_vars

\* The calls made where the scheduling matters and the arguments do not:
\* two that reach the transport.
LiveCalls == {c \in ConcCalls : c.op \in {"FindTokenByID", "ListCredits"} /\ Prepare(c.op, c.arg).err = Nil}

\* Two goroutines calling operations and two calling setters, as in Next,
\* with a transport that fails when it answers at all.
NextLive ==
    /\ \/ OpStep("o1", LiveCalls, {TransportFailure})
       \/ OpStep("o2", LiveCalls, {TransportFailure})
       \/ SetterStep("s1", {ColonKey}, Transports)
       \/ KeySetterStep("s2", {PlainKey})
    /\ UNCHANGED <<construction, coded, since>>

\* The steps of a goroutine between RLock and RUnlock.
ReadSection(t) ==
    /\ apiKey_ReadRUnlock(t) \/ httpRoundTripper_ReadRUnlock(t)
    /\ UNCHANGED <<construction, coded, since>>

\* The entry of a setter into Lock, which takes the writers' mutex.
LockEntry(t) ==
    /\ pc[t] \in {"sk_lock", "sr_lock"}
    /\ SetAPIKey_Lock(t) \/ SetHTTPRoundTripper_Lock(t)
    /\ UNCHANGED <<construction, coded, since>>

\* The steps of a setter from its wait for the readers to its return.
WriteSection(t) ==
    /\ pc[t] \notin {"sk_lock", "sr_lock"}
    /\ \/ SetAPIKey_Lock(t)
       \/ SetAPIKey_StoreData(t)
       \/ SetAPIKey_StoreLenUnlock(t)
       \/ SetHTTPRoundTripper_Lock(t)
       \/ SetHTTPRoundTripper_StoreUnlock(t)
    /\ UNCHANGED <<construction, coded, since>>

\* The scheduler runs every goroutine that can run, and the writers' mutex
\* of sync.RWMutex hands itself over to a goroutine that keeps waiting for
\* it (its starvation mode). Nothing makes the caller call or the transport
\* answer.
SpecLive ==
    /\ Init /\ [][NextLive]_vars
    /\ \A t \in OpThreads : WF_vars(ReadSection(t))
    /\ \A t \in SetterThreads : SF_vars(LockEntry(t)) /\ WF_vars(WriteSection(t))

\* What the client's fields have held from the invocation of the operation
\* t is in to the dispatch of its request, after the step being taken: the
\* record starts at the invocation, grows with every value stored until the
\* request is handed to the transport, and goes when the caller has the
\* result.
Observed(t) ==
    IF pc'[t] = "idle" THEN Nil
    ELSE IF pc[t] = "idle" THEN [keys |-> {apiKey'}, rts |-> {rt'}]
    ELSE IF pc'[t] \in {"k_rlock", "k_read", "r_rlock", "r_read"}
         THEN [keys |-> since[t].keys \cup {apiKey'}, rts |-> since[t].rts \cup {rt'}]
    ELSE since[t]

\* One goroutine calling operations while two call the setters, with the
\* history of the fields kept for the operation.
NextRead ==
    /\ \/ OpStep("o1", LiveCalls, {TransportFailure})
       \/ SetterStep("s1", {ColonKey}, {NilRT} \cup Transports)
       \/ KeySetterStep("s2", {PlainKey})
    /\ since' = [t \in OpThreads |-> Observed(t)]
    /\ UNCHANGED <<construction, coded>>

SpecRead == Init /\ [][NextRead]_vars

\* Every call of every operation.
Calls == UNION {{[op |-> op, arg |-> arg] : arg \in Args(op)} : op \in OpNames}

\* One goroutine calling the operations one after the other, with every
\* argument and every answer of the transport.
NextSeq == OpStep("o1", Calls, Outcomes) /\ UNCHANGED <<construction, coded, since>>

SpecSeq == Init /\ [][NextSeq]_vars

\* The constructors called with every list of keys in every environment.
NextNew ==
    \/ \E v \in EnvValues : Setenv(v)
    \/ NewClientFromEnv_Call
    \/ \E apiKeysToTry \in KeyLists : NewClient_Call(apiKeysToTry)

SpecNew == Init /\ [][NextNew]_vars

\* The characters of the identifiers drawn for the URLs: those of Alphabet
\* and the two that delimit the parts of a URL.
URLAlphabet == Alphabet \cup {"/", "?"}

URLStrs == UNION {[1..n -> URLAlphabet] : n \in 0..MaxStrLen}

\* The calls whose requests are looked at: AddCard and FindTokenByID with
\* every identifier, the other operations with one request each.
URLCalls ==
    {[op |-> "AddCard", arg |-> [CustomerID |-> s, Card |-> [ID |-> <<"a">>]]] :
        s \in URLStrs}
    \cup {[op |-> "FindTokenByID", arg |-> [tokenID |-> s]] : s \in URLStrs}
    \cup {c \in ConcCalls : c.op \in {"Charge", "NewToken"}}
    \cup {[op |-> "ListCredits", arg |-> cr] : cr \in CreditRequests}

\* One goroutine calling the operations with identifiers of every shape;
\* the transport fails each request once it has received it.
NextURL == OpStep("o1", URLCalls, {TransportFailure}) /\ UNCHANGED <<construction, coded, since>>

SpecURL == Init /\ [][NextURL]_vars

\* The encoders and decoders called with every value.
NextCodec ==
    \/ \E b \in JSONTexts : CustomerID_UnmarshalJSON_Call(b)
    \/ \E ot \in ObjectTypes : ObjectType_MarshalJSON_Call(ot)
    \/ \E card \in FullCards : \E addressable \in BOOLEAN :
          Card_RoundTrip_Call(card, addressable)

SpecCodec == Init /\ [][NextCodec]_vars

\* One goroutine looking tokens up through the stub transport.
NextToken ==
    /\ OpStep("o1", {c \in Calls : c.op = "FindTokenByID"}, TokenOutcomes)
    /\ UNCHANGED <<construction, coded, since>>

SpecToken == Init /\ [][NextToken]_vars

(* ------------------------------ properties ----------------------------- *)

\* Whether a text has a colon in it.
HasColon(s) == \E i \in 1..Len(s) : s[i] = ":"

\* Whether a text is empty or made of blanks only.
IsBlank(s) == \A i \in 1..Len(s) : s[i] = " "

\* The complete keys: the one given at construction and the arguments of the
\* SetAPIKey calls.
CompleteKeys == {StringHeader(k) : k \in {InitKey} \cup KeyArgs}

\* C1, as stated: every request the transport receives carries Basic Auth
\* that reads back, on the transport's side, as username = the API key the
\* operation read and password = the empty string.
C1_AuthReadsBackAsKey ==
    \A t \in Threads :
        sent[t] # Nil =>
            /\ BasicAuth(sent[t]).ok
            /\ BasicAuth(sent[t]).username = StrOf(key[t])
            /\ BasicAuth(sent[t]).password = <<>>

\* C1, amended: every request the transport receives carries the Basic Auth
\* header made of the API key the operation read, a colon and an empty
\* password, in any interleaving with SetAPIKey calls; it reads back as
\* username = that key and password = the empty string whenever the key has
\* no colon in it.
C1_AuthHeaderFromKey ==
    \A t \in Threads :
        sent[t] # Nil =>
            /\ key[t] # Nil
            /\ sent[t].auth # Nil
            /\ sent[t].auth.scheme = "Basic"
            /\ sent[t].auth.cred = StrOf(key[t]) \o <<":">>
            /\ BasicAuth(sent[t]).ok
            /\ ~HasColon(StrOf(key[t])) =>
                  /\ BasicAuth(sent[t]).username = StrOf(key[t])
                  /\ BasicAuth(sent[t]).password = <<>>

\* C1, witness: a request is in flight, signed with the key a SetAPIKey call
\* stored, while another SetAPIKey call is half way through its store.
C1_Witness ==
    /\ pc["o1"] = "inflight"
    /\ key["o1"] = StringHeader(PlainKey)
    /\ BasicAuth(sent["o1"]).username = PlainKey
    /\ BasicAuth(sent["o1"]).password = <<>>
    /\ pc["s1"] = "sk_len"

\* C2: the key an operation has read is always a complete value, the key
\* given at construction or the whole argument of a SetAPIKey call, never
\* the bytes of one key with the length of another.
C2_KeyReadIsComplete ==
    \A t \in Threads : key[t] # Nil => key[t] \in CompleteKeys

\* C2, witness: an operation has read the key one SetAPIKey call stored
\* while another SetAPIKey call is waiting for the lock, and the stored key
\* goes through a half-written value under that lock.
C2_Witness ==
    /\ pc["o1"] = "r_rlock"
    /\ key["o1"] = StringHeader(PlainKey)
    /\ pc["s1"] = "sk_len"
    /\ apiKey \notin CompleteKeys
    /\ pc["o2"] = "k_rlock"

\* Whether a call has got a response (and no failure) from the transport.
GotResponse(t) == resp[t] # Nil /\ resp[t].err = Nil

\* Whether the response a call got has a status code in 200..299.
In2xx(t) == resp[t].res.StatusCode \in 200..299

\* C3, as stated: for every response the transport returns, the pipeline
\* returns, with an error if and only if the status code is outside
\* 200..299, and with the body's bytes and a nil error when it is inside.
C3_ErrorIffNot2xx ==
    \A t \in Threads :
        GotResponse(t) =>
            /\ pc[t] = "returned"
            /\ slurp[t].err # Nil <=> ~In2xx(t)
            /\ In2xx(t) =>
                  /\ slurp[t].val = [bytes |-> resp[t].res.Body.data]
                  /\ slurp[t].err = Nil

\* C3, amended: for every response the transport returns, except a 2xx
\* response without a body (on which the pipeline panics), the pipeline
\* returns an error if and only if the status code is outside 200..299 or
\* the reading of the body of a 2xx response fails; when the status is
\* inside 200..299 and the body is read to its end without an error it
\* returns the body's bytes unchanged and a nil error.
C3_ErrorIffNot2xxOrReadFails ==
    \A t \in Threads :
        GotResponse(t) =>
            LET body == resp[t].res.Body
            IN  IF In2xx(t) /\ body = Nil THEN pc[t] = "panicked"
                ELSE /\ pc[t] = "returned"
                     /\ slurp[t].err # Nil <=> (~In2xx(t) \/ body.readErr)
                     /\ (In2xx(t) /\ ~body.readErr) =>
                           /\ slurp[t].val = [bytes |-> body.data]
                           /\ slurp[t].err = Nil

\* C3, witness: a response with status 299 and the body "oops" came back,
\* and the pipeline returned these bytes with a nil error.
C3_Witness ==
    /\ pc["o1"] = "returned"
    /\ GotResponse("o1")
    /\ resp["o1"].res.StatusCode = 299
    /\ resp["o1"].res.Body = [data |-> "oops", readErr |-> FALSE]
    /\ slurp["o1"].val = [bytes |-> "oops"]
    /\ slurp["o1"].err = Nil

\* C4: for every response with a status code outside 200..299 the error
\* returned has the text read from the body as its message when that text
\* is not empty, and the response's status line when the body is absent or
\* empty.
C4_RemoteErrorMessage ==
    \A t \in Threads :
        (GotResponse(t) /\ ~In2xx(t)) =>
            LET res == resp[t].res
                want == IF res.Body # Nil /\ res.Body.data # "" THEN res.Body.data
                        ELSE res.Status
            IN  /\ pc[t] = "returned"
                /\ slurp[t].err # Nil
                /\ slurp[t].err.msg = want
                /\ ret[t].err = slurp[t].err

\* C4, witness: a 400 response with the body "oops" came back and the call
\* returned an error whose message is "oops".
C4_Witness ==
    /\ pc["o1"] = "returned"
    /\ GotResponse("o1")
    /\ resp["o1"].res.StatusCode = 400
    /\ resp["o1"].res.Body # Nil
    /\ resp["o1"].res.Body.data = "oops"
    /\ ret["o1"].err # Nil
    /\ ret["o1"].err.msg = "oops"

\* Whether goroutine t is in a call of op whose argument satisfies bad.
InCallWith(t, op, bad(_)) ==
    call[t] # Nil /\ call[t].op = op /\ bad(call[t].arg)

\* Whether the call of goroutine t has returned a nil result and an error
\* without reaching the transport.
RejectedLocally(t) ==
    /\ pc[t] = "returned"
    /\ ret[t].val = Nil
    /\ ret[t].err # Nil
    /\ ncalls[t] = 0
    /\ sent[t] = Nil

\* A charge with card and customerId both unset.
ChargeNoSource(creq) ==
    /\ creq # Nil
    /\ creq.Card \in {IfaceNil, IfaceStr(<<>>)}
    /\ creq.CustomerID = <<>>

ChargeNilOrNoSource(creq) == creq = Nil \/ ChargeNoSource(creq)

\* C5: every Charge call whose request is nil, or whose card and customerId
\* are both unset, returns a nil result and a validation error (the
\* missing-payment-source error when both are unset) without a call to the
\* transport.
C5_ChargeRejected ==
    \A t \in Threads :
        InCallWith(t, "Charge", ChargeNilOrNoSource) =>
            /\ RejectedLocally(t)
            /\ ret[t].err \in {errBlankCharge, errEitherBlankCardOrCustomerIDMustBeSet}
            /\ ChargeNoSource(call[t].arg) =>
                  ret[t].err = errEitherBlankCardOrCustomerIDMustBeSet

\* C5, witness: a Charge call with the empty string as card and no
\* customerId has returned the missing-payment-source error.
C5_Witness ==
    /\ pc["o1"] = "returned"
    /\ call["o1"] = [op |-> "Charge", arg |-> [Card |-> IfaceStr(<<>>), CustomerID |-> <<>>]]
    /\ ret["o1"] = Returned(Nil, errEitherBlankCardOrCustomerIDMustBeSet)
    /\ ncalls["o1"] = 0

\* An AddCard request that is nil, has no card, or a card whose identifier
\* is blank.
AddCardNoCard(acr) ==
    \/ acr = Nil
    \/ acr.Card = Nil
    \/ IsBlank(acr.Card.ID)

\* C6: every AddCard call whose request is nil, whose Card is nil, or whose
\* Card identifier is blank after trimming returns a nil card and a non-nil
\* error without a call to the transport.
C6_AddCardRejected ==
    \A t \in Threads : InCallWith(t, "AddCard", AddCardNoCard) => RejectedLocally(t)

\* C6, witness: an AddCard call for a known customer with a card whose
\* identifier is two blanks has returned the unset-card-ID error.
C6_Witness ==
    /\ pc["o1"] = "returned"
    /\ call["o1"] = [op |-> "AddCard",
                     arg |-> [CustomerID |-> <<"a">>, Card |-> [ID |-> <<" ", " ">>]]]
    /\ ret["o1"] = Returned(Nil, errUnsetCardID)
    /\ ncalls["o1"] = 0

\* An AddCard request with a valid card and a blank customer identifier.
AddCardNoCustomer(acr) ==
    /\ ~AddCardNoCard(acr)
    /\ IsBlank(acr.CustomerID)

\* C7, as stated: every AddCard call with a valid card and a customer
\* identifier that is blank after trimming returns the invalid-customer
\* error, which is none of the errors returned for a bad card, without a
\* call to the transport.
C7_InvalidCustomerError ==
    \A t \in Threads :
        InCallWith(t, "AddCard", AddCardNoCustomer) =>
            /\ RejectedLocally(t)
            /\ ret[t].err = errInvalidCustomerID
            /\ ret[t].err \notin {errBlankCard, errUnsetCardID}

\* A token request that is nil or has a blank security code.
TokenRequestNoCode(treq) == treq = Nil \/ IsBlank(treq.SecurityCode)

\* C8: every NewToken call whose request is nil or whose security code is
\* blank after trimming returns a nil token and a validation error (the
\* missing-security-code error for the blank code) without a call to the
\* transport.
C8_NewTokenRejected ==
    \A t \in Threads :
        InCallWith(t, "NewToken", TokenRequestNoCode) =>
            /\ RejectedLocally(t)
            /\ ret[t].err =
                  IF call[t].arg = Nil THEN errNilTokenRequest ELSE errEmptySecurityCode

\* C8, witness: a NewToken call with a security code of one blank has
\* returned the missing-security-code error.
C8_Witness ==
    /\ pc["o1"] = "returned"
    /\ call["o1"] = [op |-> "NewToken", arg |-> [SecurityCode |-> <<" ">>]]
    /\ ret["o1"] = Returned(Nil, errEmptySecurityCode)
    /\ ncalls["o1"] = 0

\* A token identifier that is empty or made of blanks only.
TokenIDBlank(arg) == IsBlank(arg.tokenID)

\* C9: every FindTokenByID call whose identifier is empty or made of white
\* space only returns a nil token and the missing-identifier error without
\* a call to the transport.
C9_FindTokenRejected ==
    \A t \in Threads :
        InCallWith(t, "FindTokenByID", TokenIDBlank) =>
            /\ RejectedLocally(t)
            /\ ret[t].err = errBlankTokenID

\* C9, witness: a FindTokenByID call with an identifier of two blanks has
\* returned the missing-identifier error.
C9_Witness ==
    /\ pc["o1"] = "returned"
    /\ call["o1"] = [op |-> "FindTokenByID", arg |-> [tokenID |-> <<" ", " ">>]]
    /\ ret["o1"] = Returned(Nil, errBlankTokenID)
    /\ ncalls["o1"] = 0

\* The stages of an operation, in the order the five methods run them
\* (the building of the *http.Request comes between marshal and pipeline).
StageOrder == <<"validate", "resolve", "marshal", "newRequest", "pipeline", "unmarshal">>

StageRank(s) == CHOOSE i \in 1..Len(StageOrder) : StageOrder[i] = s

\* The errors of the local validation.
ValidationErrors ==
    {errBlankCard, errUnsetCardID, errBlankTokenID, errBlankAddCardRequest,
     errBlankCharge, errEitherBlankCardOrCustomerIDMustBeSet, errNilTokenRequest,
     errEmptySecurityCode}

\* The last stage the call of goroutine t has run.
LastStage(t) == stages[t][Len(stages[t])]

\* C10: in each of the five operations the stages run in the order
\* validate, resolve endpoint, marshal, transport pipeline, unmarshal; a
\* call that returns an error returns the error of the last stage it ran (a
\* validation error, the transport's failure, the error made for a non-2xx
\* response, the decoding error for malformed JSON) and has run no later
\* stage; a call that returns without an error has run unmarshal last; and
\* the result returned is nil exactly when the error is not.
C10_StagesShortCircuit ==
    \A t \in OpThreads :
        /\ \A i, j \in 1..Len(stages[t]) :
              i < j => StageRank(stages[t][i]) < StageRank(stages[t][j])
        /\ pc[t] = "returned" =>
              /\ ret[t].err # Nil <=> ret[t].val = Nil
              /\ ret[t].err = Nil => LastStage(t) = "unmarshal"
              /\ LastStage(t) = "validate" =>
                    ret[t].err \in ValidationErrors /\ ncalls[t] = 0
              /\ LastStage(t) \in {"resolve", "marshal", "newRequest"} =>
                    ret[t].err # Nil /\ ncalls[t] = 0
              /\ LastStage(t) = "pipeline" =>
                    /\ ncalls[t] = 1
                    /\ slurp[t].err # Nil
                    /\ ret[t].err = slurp[t].err
              /\ LastStage(t) = "unmarshal" =>
                    /\ slurp[t].err = Nil
                    /\ ret[t].err # Nil <=> ~JSONValid(slurp[t].val.bytes)
                    /\ ret[t].err # Nil => ret[t].err.var = "json"
              /\ resp[t] # Nil =>
                    /\ resp[t].err # Nil =>
                          ret[t] = Returned(Nil, resp[t].err) /\ LastStage(t) = "pipeline"
                    /\ (GotResponse(t) /\ ~In2xx(t)) =>
                          /\ ret[t].val = Nil
                          /\ ret[t].err.var = "errors.New"
                          /\ LastStage(t) = "pipeline"

\* C10, witness: an AddCard call has run all its stages in order and
\* returned a nil card and the decoding error for a 200 response whose body
\* is not JSON.
C10_Witness ==
    /\ pc["o1"] = "returned"
    /\ call["o1"] # Nil
    /\ call["o1"].op = "AddCard"
    /\ stages["o1"] = <<"validate", "resolve", "marshal", "newRequest", "pipeline", "unmarshal">>
    /\ GotResponse("o1")
    /\ resp["o1"].res.StatusCode = 200
    /\ resp["o1"].res.Body = [data |-> "oops", readErr |-> FALSE]
    /\ ret["o1"] = Returned(Nil, Err("json", "malformed JSON"))

\* Whether the call of goroutine t has come to its end.
Ended(t) == pc[t] \in {"returned", "panicked"}

\* Whether the call of goroutine t passed the local validation.
PassedValidation(t) ==
    /\ call[t] # Nil
    /\ Prepare(call[t].op, call[t].arg).stages # <<"validate">>

\* Whether the *http.Request of the call of goroutine t could be built.
RequestBuilt(t) == Prepare(call[t].op, call[t].arg).err = Nil

\* C11, as stated: every operation call that passes local validation has
\* invoked the transport exactly once when it ends, whatever the outcome,
\* and no call invokes it more than once.
C11_OnceIfValid ==
    \A t \in OpThreads :
        /\ ncalls[t] <= 1
        /\ (Ended(t) /\ PassedValidation(t)) => ncalls[t] = 1

\* C11, amended: every operation call that passes local validation and
\* whose HTTP request can be built has handed the request to the HTTP
\* client exactly once when it ends, whatever the outcome (success, non-2xx
\* response, transport failure); a call whose request cannot be built has
\* not handed anything over; and no call does so more than once.
C11_OnceIfRequestBuilt ==
    \A t \in OpThreads :
        /\ ncalls[t] <= 1
        /\ (Ended(t) /\ PassedValidation(t)) =>
              ncalls[t] = IF RequestBuilt(t) THEN 1 ELSE 0
        /\ (Ended(t) /\ ~PassedValidation(t)) => ncalls[t] = 0

\* C11, witness: a Charge call that passed validation has been answered
\* with a transport failure and has returned it after one invocation.
C11_Witness ==
    /\ pc["o1"] = "returned"
    /\ call["o1"] # Nil
    /\ call["o1"].op = "Charge"
    /\ resp["o1"] = TransportFailure
    /\ ret["o1"] = Returned(Nil, TransportFailure.err)
    /\ ncalls["o1"] = 1

\* The positions of the usable keys of a list: those that are not blank.
Usable(args) == {i \in 1..Len(args) : ~IsBlank(args[i])}

\* C12: a constructor returns a nil client and the missing-credential error
\* exactly when no key argument is usable and SECURIONPAY_API_KEY is empty;
\* in every other case it returns a client that holds a non-empty key, and
\* a nil error.
C12_MissingCredential ==
    made # Nil =>
        LET missing == Usable(made.args) = {} /\ made.env = <<>>
        IN  /\ missing => made.out.client = Nil /\ made.out.err = errEmptyAPIKey
            /\ ~missing =>
                  /\ made.out.err = Nil
                  /\ made.out.client # Nil
                  /\ made.out.client.apiKey # <<>>

\* C12, witness: NewClient was called with an empty and a blank key in an
\* environment without the variable, and returned the missing-credential
\* error.
C12_Witness ==
    /\ made # Nil
    /\ made.fn = "NewClient"
    /\ made.args = <<<<>>, <<" ">>>>
    /\ made.env = <<>>
    /\ made.out = Made(Nil, errEmptyAPIKey, 1)

\* C13: NewClient uses the first key of its list that is not blank, in
\* argument order and as it was given, without reading the environment;
\* it reads the environment variable only when every argument is blank,
\* and then uses its value.
C13_FirstNonBlankKey ==
    (made # Nil /\ made.fn = "NewClient") =>
        IF Usable(made.args) # {}
        THEN LET first == CHOOSE i \in Usable(made.args) :
                              \A j \in Usable(made.args) : i <= j
             IN  /\ made.out.err = Nil
                 /\ made.out.client # Nil
                 /\ made.out.client.apiKey = made.args[first]
                 /\ made.out.getenvs = 0
        ELSE /\ made.out.getenvs = 1
             /\ made.out.client # Nil => made.out.client.apiKey = made.env

\* C13, witness: NewClient was called with a blank key, then the key " b",
\* then the key "a", while the environment held another key, and returned
\* a client holding " b".
C13_Witness ==
    /\ made # Nil
    /\ made.fn = "NewClient"
    /\ made.args = <<<<" ">>, <<" ", "b">>, <<"a">>>>
    /\ made.env = <<"e">>
    /\ made.out = Made(NewClientValue(<<" ", "b">>), Nil, 0)

\* C14: a request is executed through the transport stored in the client
\* at the moment httpRoundTripper reads it, the one most recently stored by
\* SetHTTPRoundTripper; when the stored transport is nil at that moment
\* (never set, or set to nil) the request goes through the default
\* transport, and the stored value stays nil; no step of an operation
\* changes the stored transport.
C14_TransportReadOrDefault ==
    [][\A t \in OpThreads :
          /\ (pc[t] = "r_read" /\ pc'[t] = "inflight") =>
                /\ rt # NilRT => tr'[t] = rt
                /\ rt = NilRT => tr'[t] = DefaultTransport
                /\ rt' = rt
          /\ pc'[t] # pc[t] => rt' = rt
          /\ pc'[t] = "inflight" => tr'[t] \in Transports \cup {DefaultTransport}]_vars

\* C14, witness: one request is in flight through a transport that was
\* stored, another through the default transport, and the transport stored
\* since then is nil.
C14_Witness ==
    /\ pc["o1"] = "inflight"
    /\ pc["o2"] = "inflight"
    /\ tr["o2"] \in Transports
    /\ tr["o1"] = DefaultTransport
    /\ rt = NilRT

\* Whether a text has a question mark in it.
HasQuery(s) == \E i \in 1..Len(s) : s[i] = "?"

\* The segments of a path text, which slashes separate.
RECURSIVE SplitSlash(_, _)
SplitSlash(s, seg) ==
    IF s = <<>> THEN <<[text |-> seg]>>
    ELSE IF Head(s) = "/" THEN <<[text |-> seg]>> \o SplitSlash(Tail(s), <<>>)
    ELSE SplitSlash(Tail(s), Append(seg, Head(s)))

\* The path segments of the fixed parts of the URLs.
Lit(name) == [lit |-> name]

PrefixSegments(url) ==
    CASE url.prefix = "https://api.securionpay.com/customers/" -> <<Lit("customers")>>
      [] url.prefix = "https://api.securionpay.com/tokens/" -> <<Lit("tokens")>>
      [] url.prefix = "https://api.securionpay.com/tokens" -> <<Lit("tokens")>>
      [] url.prefix = "https://api.securionpay.com/charges" -> <<Lit("charges")>>
      [] url.prefix = "https://api.securionpay.com/credits?" -> <<Lit("credits")>>

SuffixSegments(url) == IF url.suffix = "/cards" THEN <<Lit("cards")>> ELSE <<>>

\* The path of a URL as url.Parse finds it: the segments of the text up to
\* the first question mark.
PathSegments(url) ==
    PrefixSegments(url)
    \o (IF url.param = <<>> THEN <<>> ELSE SplitSlash(BeforeQuery(url.param), <<>>))
    \o (IF HasQuery(url.param) THEN <<>> ELSE SuffixSegments(url))

\* Whether an identifier is free of the characters that delimit or escape
\* the parts of a URL.
PlainIdentifier(s) == \A i \in 1..Len(s) : s[i] \notin {"/", "?", "#", "%"}

\* What the method and the fixed URLs of the interface table are.
SendsFixed(t) ==
    LET op == call[t].op
        arg == call[t].arg
        r == sent[t]
    IN  /\ op = "AddCard" =>
              /\ r.method = "POST"
              /\ r.url.prefix = "https://api.securionpay.com/customers/"
              /\ r.url.param = arg.CustomerID
              /\ r.url.suffix = "/cards"
              /\ r.url.query = Nil
        /\ op = "FindTokenByID" =>
              /\ r.method = "GET"
              /\ r.url.prefix = "https://api.securionpay.com/tokens/"
              /\ r.url.param = TrimSpace(arg.tokenID)
              /\ r.url.suffix = ""
              /\ r.url.query = Nil
        /\ op = "Charge" =>
              /\ r.method = "POST"
              /\ PathSegments(r.url) = <<Lit("charges")>>
              /\ r.url.param = <<>> /\ r.url.query = Nil
        /\ op = "NewToken" =>
              /\ r.method = "POST"
              /\ PathSegments(r.url) = <<Lit("tokens")>>
              /\ r.url.param = <<>> /\ r.url.query = Nil
        /\ op = "ListCredits" =>
              /\ r.method = "GET"
              /\ PathSegments(r.url) = <<Lit("credits")>>
              /\ r.url.param = <<>>
              /\ r.url.query.limit =
                    IF arg # Nil /\ arg.Limit >= 1 THEN arg.Limit ELSE 3
              /\ r.url.query.startingAfterId =
                    IF arg # Nil /\ arg.StartingAfterId # <<>>
                    THEN [s |-> arg.StartingAfterId] ELSE Nil

\* C15, as stated: each request sent has the method and URL of the
\* interface table; AddCard's path is /customers/{customerId}/cards with
\* the request's customer identifier as the segment in the middle, and
\* FindTokenByID's is /tokens/{tokenId} with the token identifier as the
\* last segment.
C15_TableURLs ==
    \A t \in OpThreads :
        sent[t] # Nil =>
            /\ SendsFixed(t)
            /\ call[t].op = "AddCard" =>
                  /\ PathSegments(sent[t].url) =
                        <<Lit("customers"), [text |-> call[t].arg.CustomerID], Lit("cards")>>
                  /\ ~HasQuery(sent[t].url.param)
            /\ call[t].op = "FindTokenByID" =>
                  /\ PathSegments(sent[t].url) =
                        <<Lit("tokens"), [text |-> TrimSpace(call[t].arg.tokenID)]>>
                  /\ ~HasQuery(sent[t].url.param)

\* C15, amended: each request sent has the method of the interface table
\* and the URL made of the table's text with the identifier written into
\* it as it is, unescaped (AddCard: the request's customer identifier as
\* given; FindTokenByID: the token identifier trimmed); the identifier is
\* the path segment of the table whenever it has none of the characters
\* / ? # % in it. Charge, NewToken and ListCredits send to the fixed paths,
\* ListCredits with the request, its limit defaulted, in the query.
C15_TableURLsForPlainIdentifiers ==
    \A t \in OpThreads :
        sent[t] # Nil =>
            /\ SendsFixed(t)
            /\ (call[t].op = "AddCard" /\ PlainIdentifier(call[t].arg.CustomerID)) =>
                  /\ PathSegments(sent[t].url) =
                        <<Lit("customers"), [text |-> call[t].arg.CustomerID], Lit("cards")>>
                  /\ ~HasQuery(sent[t].url.param)
            /\ (call[t].op = "FindTokenByID"
                    /\ PlainIdentifier(TrimSpace(call[t].arg.tokenID))) =>
                  /\ PathSegments(sent[t].url) =
                        <<Lit("tokens"), [text |-> TrimSpace(call[t].arg.tokenID)]>>
                  /\ ~HasQuery(sent[t].url.param)

\* C15, witness: AddCard for the customer "a" has sent a POST to
\* /customers/a/cards.
C15_Witness ==
    /\ pc["o1"] = "inflight"
    /\ call["o1"].op = "AddCard"
    /\ call["o1"].arg.CustomerID = <<"a">>
    /\ sent["o1"].method = "POST"
    /\ PathSegments(sent["o1"].url) =
          <<Lit("customers"), [text |-> <<"a">>], Lit("cards")>>

\* Whether the last call of an encoder or decoder was one of fn.
Coded(fn) == coded # Nil /\ coded.fn = fn

\* C16: decoding the JSON value null into a customer identifier succeeds
\* with a nil error and leaves the identifier empty; decoding a quoted JSON
\* string yields that string.
C16_NullDecodesToEmpty ==
    Coded("CustomerID.UnmarshalJSON") =>
        /\ coded.in.b = NullText => coded.out = Decoded(<<>>, Nil)
        /\ \A s \in Strs : coded.in.b = strconv_Quote(s) => coded.out = Decoded(s, Nil)

\* Whether inner is what is left of s once the blanks around it are taken
\* away.
IsTrimOf(inner, s) ==
    /\ inner # <<>>
    /\ inner[1] # " "
    /\ inner[Len(inner)] # " "
    /\ \E i \in 1..Len(s) :
          /\ i + Len(inner) - 1 <= Len(s)
          /\ SubSeq(s, i, i + Len(inner) - 1) = inner
          /\ \A j \in 1..Len(s) : (j < i \/ j > i + Len(inner) - 1) => s[j] = " "

C18_RoundTripEqual ==
    Coded("Card") =>
        LET orig == coded.in.card
            back == coded.out.card
        IN  /\ orig.ID # <<>> => back.ID = orig.ID
            /\ orig.ObjectType # <<>> => back.ObjectType = orig.ObjectType
            /\ orig.ExpiryMonth # 0 => back.ExpiryMonth = orig.ExpiryMonth
            /\ orig.ExpiryYear # 0 => back.ExpiryYear = orig.ExpiryYear

\* C18, amended: for every Card, marshaling it and unmarshaling the bytes
\* into a fresh Card yields a Card equal to the original in every populated
\* field other than objectType, the expiry month and year keeping their
\* exact integer value; objectType comes back equal when it has no blanks
\* around it or the Card was marshaled by value, and otherwise (a *Card was
\* marshaled) without the blanks around it, or as "card" when it was blanks
\* only.
C18_RoundTripEqualButObjectType ==
    Coded("Card") =>
        LET orig == coded.in.card
            back == coded.out.card
        IN  /\ orig.ID # <<>> => back.ID = orig.ID
            /\ orig.ExpiryMonth # 0 => back.ExpiryMonth = orig.ExpiryMonth
            /\ orig.ExpiryYear # 0 => back.ExpiryYear = orig.ExpiryYear
            /\ orig.ObjectType # <<>> =>
                  IF ~coded.in.addressable THEN back.ObjectType = orig.ObjectType
                  ELSE IF IsBlank(orig.ObjectType) THEN back.ObjectType = CardText
                  ELSE IsTrimOf(back.ObjectType, orig.ObjectType)

\* C18, witness: a *Card with the identifier "a", the objectType "a%" and
\* the expiry -1/2017 went through the round trip and came back equal.
C18_Witness ==
    /\ Coded("Card")
    /\ coded.in.addressable
    /\ coded.in.card = [ID |-> <<"a">>, ObjectType |-> <<"a", "%">>,
                        ExpiryMonth |-> -1, ExpiryYear |-> 2017]
    /\ coded.out.doc.expMonth = <<Quote, "-", "1", Quote>>
    /\ coded.out.doc.expYear = <<Quote, "2", "0", "1", "7", Quote>>
    /\ coded.out.card = coded.in.card

\* The Token a call returned.
TokenOf(val) == [ID |-> val.ID, ObjectType |-> val.ObjectType]

\* C19: when the transport answers a FindTokenByID call with a 2xx response
\* whose body is the JSON of a token, the call returns a nil error and a
\* Token equal to the one the body encodes, and serialising it again gives
\* the bytes of the body, which are those of the token the transport
\* serialised; when the transport answers with a non-2xx response the call
\* returns an error and a nil Token.
C19_TokenAsInBody ==
    \A t \in OpThreads :
        (pc[t] = "returned" /\ call[t].op = "FindTokenByID" /\ GotResponse(t)) =>
            /\ In2xx(t) =>
                  /\ ret[t].err = Nil
                  /\ ret[t].val # Nil
                  /\ ret[t].val.type = "Token"
                  /\ TokenJSON(ret[t].val.ID, ret[t].val.ObjectType) = resp[t].res.Body.data
                  /\ Token_Marshal(TokenOf(ret[t].val)) = resp[t].res.Body.data
                  /\ \A tok \in Tokens :
                        Token_Marshal(tok) = resp[t].res.Body.data =>
                            /\ ret[t].val.ID = tok.ID
                            /\ Token_Marshal(TokenOf(ret[t].val)) = Token_Marshal(tok)
            /\ ~In2xx(t) => ret[t].err # Nil /\ ret[t].val = Nil

\* C19, witness: the lookup of the token "a" was answered with the JSON of
\* a token whose objectType is " a", and returned a token that serialises
\* to the same bytes.
C19_Witness ==
    /\ pc["o1"] = "returned"
    /\ call["o1"] = [op |-> "FindTokenByID", arg |-> [tokenID |-> <<"a">>]]
    /\ GotResponse("o1")
    /\ resp["o1"].res.StatusCode = 200
    /\ resp["o1"].res.Body.data =
          Token_Marshal([ID |-> <<"a">>, ObjectType |-> <<" ", "a">>])
    /\ ret["o1"] = Returned([type |-> "Token", ID |-> <<"a">>, ObjectType |-> <<"a">>], Nil)

\* C20: no operation changes the request object the caller passed in: when
\* a call of AddCard, Charge, NewToken or ListCredits has ended, failed at
\* whatever stage or not, every field of the caller's request has the value
\* it had before the call, the Limit of a CreditRequest whose limit was
\* defaulted included; the default is in the copy the query is made from.
C20_RequestNotMutated ==
    \A t \in OpThreads :
        (call[t] # Nil /\ call[t].op \in {"AddCard", "Charge", "NewToken", "ListCredits"}) =>
            /\ caller[t] = call[t].arg
            /\ (call[t].op = "ListCredits" /\ sent[t] # Nil) =>
                  sent[t].url.query.limit = ListCredits_Memory(call[t].arg).creq.Limit

\* C20, witness: ListCredits was called with a limit of 0, sent the
\* default limit, failed in the transport, and the caller's request still
\* has the limit 0.
C20_Witness ==
    /\ pc["o1"] = "returned"
    /\ call["o1"] = [op |-> "ListCredits", arg |-> [Limit |-> 0, StartingAfterId |-> <<>>]]
    /\ sent["o1"].url.query.limit = defaultCreditLimit
    /\ ret["o1"] = Returned(Nil, TransportFailure.err)
    /\ caller["o1"] = [Limit |-> 0, StartingAfterId |-> <<>>]

(* ------------------------- the lock and its users ---------------------- *)

\* A goroutine is about to take the shared lock for a read of a field.
AwaitsRead(t) == pc[t] \in {"k_rlock", "r_rlock"}

\* A goroutine is between RLock and RUnlock.
Reading(t) == pc[t] \in {"k_read", "r_read"}

\* A setter has entered Lock and waits for the readers to leave.
AwaitsWrite(t) == pc[t] \in {"sk_wait", "sr_wait"}

\* A setter is between Lock and Unlock.
Writing(t) == pc[t] \in {"sk_data", "sk_len", "sr_store"}

\* C21, as stated: an operation about to read the key or the transport is
\* never made to wait by a setter, that is, its RLock can always proceed.
C21_ReadNeverWaits ==
    \A t \in OpThreads : AwaitsRead(t) => rwW = None

\* C21, amended: an operation's read of the key or of the transport waits
\* only while a setter is inside its Lock..Unlock section, and that section
\* holds no blocking call: the setter either waits for readers that are
\* between RLock and RUnlock (none of them in a round trip), or holds the
\* exclusive lock for its store.
C21_ReadWaitsOnlyForStore ==
    \A t \in OpThreads :
        (AwaitsRead(t) /\ rwW # None) =>
            /\ rwW \in SetterThreads
            /\ \/ AwaitsWrite(rwW) /\ rwWriter = None /\ \A r \in readers : Reading(r)
               \/ Writing(rwW) /\ rwWriter = rwW /\ readers = {}

\* C21, witness: an operation is about to read the key while SetAPIKey is
\* in the middle of its store, and so has to wait.
C21_Witness ==
    /\ pc["o1"] = "k_rlock"
    /\ pc["s2"] = "sk_data"
    /\ rwW = "s2"

\* C22: every write of the key and of the transport is made by a setter
\* holding the exclusive lock and every read by a goroutine holding the
\* shared lock; a writer in its critical section excludes every reader and
\* every other writer, and readers may be in their sections together.
C22_AccessUnderLock ==
    /\ [](/\ \A t \in Threads : Writing(t) =>
                /\ rwWriter = t
                /\ readers = {}
                /\ \A u \in Threads \ {t} : ~Writing(u) /\ ~Reading(u)
          /\ \A t \in Threads : Reading(t) => t \in readers /\ rwWriter = None)
    /\ [][/\ fields' # fields =>
                \E s \in SetterThreads : Writing(s) /\ rwWriter = s /\ readers = {}
          /\ \A t \in Threads :
                ((key'[t] # key[t] /\ key'[t] # Nil) \/ (tr'[t] # tr[t] /\ tr'[t] # None)) =>
                    Reading(t) /\ t \in readers /\ rwWriter = None]_vars

\* C22, witness: two operations are between RLock and RUnlock together,
\* one reading the key and one reading the transport.
C22_Witness ==
    /\ pc["o1"] = "r_read"
    /\ pc["o2"] = "k_read"
    /\ readers = {"o1", "o2"}

\* C23: for every response the transport delivered with a body, whether
\* its status is a success or not, the pipeline has run ReadAll on the body
\* (reading it until the stream ended) and closed it exactly once by the
\* time it returns; what it returns is made of all the data the body
\* delivered. The only exit that is not a return, the panic, happens when
\* there is no body to read or close.
C23_BodyDrainedAndClosed ==
    \A t \in OpThreads :
        (resp[t] # Nil /\ resp[t].err = Nil) =>
            LET res == resp[t].res
            IN  /\ pc[t] \in {"returned", "panicked"}
                /\ pc[t] = "panicked" => res.Body = Nil
                /\ res.Body = Nil => ~slurp[t].drained /\ slurp[t].closes = 0
                /\ res.Body # Nil =>
                      /\ pc[t] = "returned"
                      /\ slurp[t].drained
                      /\ slurp[t].closes = 1
                      /\ StatusOK(res.StatusCode) => slurp[t].val.bytes = res.Body.data
                      /\ (~StatusOK(res.StatusCode) /\ res.Body.data # "") =>
                            slurp[t].err.msg = res.Body.data

\* C23, witness: a 400 response whose body delivers a text has been turned
\* into an error, its body read to the end and closed once.
C23_Witness ==
    /\ pc["o1"] = "returned"
    /\ resp["o1"] # Nil /\ resp["o1"].err = Nil
    /\ resp["o1"].res.StatusCode = 400
    /\ resp["o1"].res.Body = [data |-> "oops", readErr |-> FALSE]
    /\ slurp["o1"].drained
    /\ slurp["o1"].closes = 1
    /\ ret["o1"].err # Nil

\* What a call that has returned must have returned, given its argument and
\* what the transport answered, if anything.
OutcomeOf(c, answer) ==
    IF answer = Nil THEN Returned(Nil, Prepare(c.op, c.arg).err)
    ELSE Finish(c.op, SlurpResponse(answer))

\* C24: the client carries nothing from call to call but the stored key and
\* transport, and the operations leave both, and the lock, as they found
\* them: no step of an operation changes a field or the writer's side of
\* the lock, and an operation is among the readers only between its RLock
\* and RUnlock. What a call sends is made of its argument and the key it
\* read, and what it returns of its argument and the transport's answer;
\* two calls that agree on these agree on what they send and return.
C24_OnlyKeyAndTransportCarried ==
    /\ [][(\E t \in OpThreads : pc'[t] # pc[t]) =>
              fields' = fields /\ rwW' = rwW /\ rwWriter' = rwWriter]_vars
    /\ [](\A t \in OpThreads :
            /\ t \in readers <=> Reading(t)
            /\ sent[t] # Nil =>
                  sent[t] = SetBasicAuth(Prepare(call[t].op, call[t].arg).req,
                                         StrOf(key[t]), <<>>)
            /\ pc[t] = "returned" => ret[t] = OutcomeOf(call[t], resp[t])
            /\ \A u \in OpThreads :
                  (/\ pc[t] = "returned" /\ pc[u] = "returned"
                   /\ call[t] = call[u] /\ key[t] = key[u]
                   /\ tr[t] = tr[u] /\ resp[t] = resp[u]) =>
                      ret[t] = ret[u] /\ sent[t] = sent[u])

\* C24, witness: with a key and a transport stored by the setters, one
\* operation has returned a result and another an error, and the stored key
\* and transport are what the setters stored.
C24_Witness ==
    /\ apiKey = StringHeader(PlainKey)
    /\ rt \in Transports
    /\ pc["o1"] = "returned" /\ ret["o1"].err = Nil
    /\ key["o1"] = StringHeader(ColonKey)
    /\ pc["o2"] = "returned" /\ ret["o2"].err # Nil /\ resp["o2"] # Nil
    /\ readers = {} /\ rwW = None

\* A goroutine is inside a method of the client and not in the round trip.
InClient(t) == pc[t] \notin {"idle", "inflight", "returned", "panicked"}

\* The goroutine can take its next step in the client.
CanStep(t) ==
    \/ ENABLED apiKey_RLock(t)
    \/ ENABLED httpRoundTripper_RLock(t)
    \/ Reading(t)
    \/ ENABLED SetAPIKey_Lock(t)
    \/ ENABLED SetHTTPRoundTripper_Lock(t)
    \/ Writing(t)

\* C25: the lock is never held across the round trip, and every
\* acquisition is released before the method that made it returns: a
\* goroutine outside the readers' and writers' sections holds neither side
\* of the lock. No deadlock is reachable: whenever goroutines are inside
\* the client, one of them can step, even with requests in flight that are
\* never answered. Under fair scheduling every call of SetAPIKey and of
\* SetHTTPRoundTripper returns.
C25_LockReleasedAndSettersReturn ==
    /\ [](\A t \in Threads :
            /\ t \in readers => Reading(t)
            /\ rwWriter = t => Writing(t)
            /\ rwW = t => AwaitsWrite(t) \/ Writing(t))
    /\ []((\E t \in Threads : InClient(t)) => \E t \in Threads : InClient(t) /\ CanStep(t))
    /\ \A s \in SetterThreads : (pc[s] # "idle") ~> (pc[s] = "idle")

\* C25, witness: both operations have requests in flight, unanswered, while
\* a setter holds the exclusive lock and the other one waits to enter Lock.
C25_Witness ==
    /\ pc["o1"] = "inflight"
    /\ pc["o2"] = "inflight"
    /\ pc["s1"] = "sr_store"
    /\ pc["s2"] = "sk_lock"
    /\ rwWriter = "s1"

\* C26: an operation reads the key once and the transport once, the key
\* first, each at an instant between its invocation and the dispatch of its
\* request: the key it signs with is one the field held in that interval
\* and the transport it sends through is the one for a value the field held
\* in that interval, so that when the field held a single value k (or r)
\* throughout, the request is signed with k (sent through r). Once read,
\* the key and the transport of a call do not change, and once dispatched
\* the request does not change, whatever the setters store afterwards.
C26_ReadOnceBeforeDispatch ==
    /\ [](\A t \in OpThreads :
            /\ key[t] # Nil => key[t] \in since[t].keys
            /\ tr[t] # None =>
                  /\ key[t] # Nil
                  /\ \E r \in since[t].rts : tr[t] = TransportFor(r)
            /\ sent[t] # Nil =>
                  /\ key[t] # Nil /\ tr[t] # None /\ ncalls[t] = 1
                  /\ sent[t].auth.cred = StrOf(key[t]) \o <<":">>
                  /\ \A k \in KeyArgs \cup {InitKey} :
                        since[t].keys = {StringHeader(k)} =>
                            sent[t].auth.cred = k \o <<":">>
                  /\ \A r \in {NilRT} \cup Transports :
                        since[t].rts = {r} => tr[t] = TransportFor(r))
    /\ [][\A t \in OpThreads :
            /\ key[t] # Nil => key'[t] \in {key[t], Nil}
            /\ tr[t] # None => tr'[t] \in {tr[t], None}
            /\ sent[t] # Nil => sent'[t] \in {sent[t], Nil}]_vars

\* C26, witness: SetAPIKey(PlainKey) and SetHTTPRoundTripper of a transport
\* had returned before the operation was invoked and nothing else was
\* stored until its request was dispatched, signed with PlainKey and sent
\* through that transport; the request is in flight unchanged while the
\* other setter has since stored another key and another transport.
C26_Witness ==
    /\ pc["o1"] = "inflight"
    /\ since["o1"].keys = {StringHeader(PlainKey)}
    /\ BasicAuth(sent["o1"]).username = PlainKey
    /\ \E r \in Transports : since["o1"].rts = {r} /\ tr["o1"] = r /\ rt # r
    /\ apiKey = StringHeader(ColonKey)
    /\ pc["s1"] = "idle" /\ pc["s2"] = "idle"

\* Whether the call of goroutine t was turned down by Charge.Validate with
\* the missing-payment-source error.
ChargeTurnedDown(t) ==
    /\ stages[t] = <<"validate">>
    /\ ret[t] = Returned(Nil, errEitherBlankCardOrCustomerIDMustBeSet)
    /\ ncalls[t] = 0

\* C27, as stated: a non-nil Charge is rejected exactly when its card is
\* nil or the empty string and its customerId is the empty string, nothing
\* being trimmed; every other Charge, a card of any non-string non-nil
\* value included, is sent to the transport.
C27_ChargeSentUnlessUnset ==
    \A t \in OpThreads :
        (Ended(t) /\ call[t].op = "Charge" /\ call[t].arg # Nil) =>
            /\ ChargeTurnedDown(t) <=> ChargeNoSource(call[t].arg)
            /\ ~ChargeNoSource(call[t].arg) => ncalls[t] = 1 /\ sent[t] # Nil

\* C27, amended: Charge.Validate rejects a non-nil Charge exactly when its
\* card is nil or the empty string and its customerId is the empty string,
\* nothing being trimmed; a Charge that passes is sent to the transport,
\* with the card and customerId as given, exactly when json.Marshal can
\* encode it, and otherwise returns the marshaling error with no request
\* made.
C27_ChargeSentUnlessUnsetOrUnencodable ==
    \A t \in OpThreads :
        (Ended(t) /\ call[t].op = "Charge" /\ call[t].arg # Nil) =>
            LET creq == call[t].arg
            IN  /\ ChargeTurnedDown(t) <=> ChargeNoSource(creq)
                /\ ~ChargeNoSource(creq) =>
                      /\ Head(stages[t]) = "validate" /\ Len(stages[t]) > 1
                      /\ creq.Card.kind = "chan" =>
                            /\ ncalls[t] = 0 /\ sent[t] = Nil
                            /\ ret[t] = Returned(Nil, MarshalChargeErr(creq))
                      /\ creq.Card.kind # "chan" =>
                            /\ ncalls[t] = 1 /\ sent[t] # Nil
                            /\ creq.Card.kind = "string" =>
                                  sent[t].body.card = [s |-> creq.Card.s]
                            /\ creq.CustomerID # <<>> =>
                                  sent[t].body.customerId = [s |-> creq.CustomerID]

\* C27, witness: a Charge whose card is a blank and whose customerId is
\* empty has been sent to the transport with the blank as its card.
C27_Witness ==
    /\ pc["o1"] = "returned"
    /\ call["o1"] = [op |-> "Charge", arg |-> [Card |-> IfaceStr(<<" ">>), CustomerID |-> <<>>]]
    /\ ncalls["o1"] = 1
    /\ sent["o1"].body.card = [s |-> <<" ">>]

\* The request ListCredits takes a nil argument for.
EmptyCreditRequest == [Limit |-> 0, StartingAfterId |-> <<>>]

\* C28: ListCredits turns no argument down: every call builds its request
\* and hands it to the transport. A nil request is sent as the empty
\* request is; a limit below 1 is sent as the default limit, 3, and a limit
\* of 1 or more as it is; the other field is sent as given (left out of the
\* query when it is empty).
C28_ListCreditsAlwaysSent ==
    \A t \in OpThreads :
        (call[t] # Nil /\ call[t].op = "ListCredits") =>
            LET cr == call[t].arg
                given == IF cr = Nil THEN EmptyCreditRequest ELSE cr
            IN  /\ Head(stages[t]) # "validate"
                /\ pc[t] = "returned" => ncalls[t] = 1
                /\ sent[t] # Nil =>
                      /\ sent[t].method = "GET"
                      /\ sent[t].url.prefix = "https://api.securionpay.com/credits?"
                      /\ sent[t].url.query.limit =
                            IF given.Limit < 1 THEN 3 ELSE given.Limit
                      /\ sent[t].url.query.startingAfterId =
                            IF given.StartingAfterId = <<>> THEN Nil
                            ELSE [s |-> given.StartingAfterId]
                      /\ cr = Nil =>
                            sent[t].url = Prepare("ListCredits", EmptyCreditRequest).req.url

\* C28, witness: ListCredits was called with a limit of 1 and a
\* startingAfterId, and its request went out with both as given.
C28_Witness ==
    /\ pc["o1"] = "returned"
    /\ call["o1"] = [op |-> "ListCredits", arg |-> [Limit |-> 1, StartingAfterId |-> <<"a">>]]
    /\ ncalls["o1"] = 1
    /\ sent["o1"].url.query = [limit |-> 1, startingAfterId |-> [s |-> <<"a">>]]

====
